---- MODULE Spec2Model ----
(***************************************************************************)
(* Model of the modal text editor of opencode-canvas: the buffer, the      *)
(* cursor, navigation, the mutation functions, the clipboard, the          *)
(* undo/redo log, the command parser, save/quit overlays and the keyboard  *)
(* handler of the Editor component.                                        *)
(*                                                                         *)
(* A line is a sequence of one-character strings; line and column indices  *)
(* are 0-based as in the source, so lines[i] of the source is lines[i+1].  *)
(***************************************************************************)
EXTENDS Integers, Sequences, FiniteSets, TLC

\* ------------------------------------------------------------------ bounds
MaxLines == 2        \* longest buffer explored (lines)
MaxLineLen == 2      \* longest line explored (characters)
MaxHistory == 1      \* deepest undo stack explored by the keyboard model
MaxNegCol == 1       \* lowest cursor column explored is -MaxNegCol
MaxInflight == 1     \* saves that may be awaiting I/O at the same time
MaxSaves == 1        \* saves started in one session
MaxPushes == 102     \* operations pushed in the undo-log specification
MaxCmdLen == 5       \* longest command line handed to parseCommand
MaxWordLineLen == 6  \* longest line of the word-motion specification
MaxWordMoves == 7    \* most word motions forward in the word-motion specification
MaxPathLen == 4      \* most segments of a path handed to checkReadOnly
MaxLockAttempts == 3 \* iterations of the acquireLock loop before LOCK_TIMEOUT_MS
MaxIpcMessages == 2  \* most JSON lines one IPC client sends
MaxChunk == 6        \* most bytes delivered by one data event
MaxCanvasMessages == 3  \* most lines a canvas sends during one spawnCanvasWithIPC

\* ----------------------------------------------------------- JS primitives
Null == "null"

Min(a, b) == IF a < b THEN a ELSE b
Max(a, b) == IF a > b THEN a ELSE b

\* String.prototype.slice / Array.prototype.slice with two arguments
Slice(s, from, to) ==
  LET n == Len(s)
      a == IF from < 0 THEN Max(n + from, 0) ELSE Min(from, n)
      b == IF to < 0 THEN Max(n + to, 0) ELSE Min(to, n)
  IN IF a >= b THEN << >> ELSE SubSeq(s, a + 1, b)

\* slice with one argument
SliceFrom(s, from) == Slice(s, from, Len(s))

\* arr[i] ?? ""
At(arr, i) == IF i >= 0 /\ i < Len(arr) THEN arr[i + 1] ELSE << >>

\* str[i] ?? ""  (a character, "" when out of range)
CharAt(str, i) == IF i >= 0 /\ i < Len(str) THEN str[i + 1] ELSE ""

\* arr.splice(start, deleteCount, ...items) on a copy, 0 <= start <= length
Splice(arr, start, deleteCount, items) ==
  LET n == Len(arr)
      s == Min(Max(start, 0), n)
      d == Min(Max(deleteCount, 0), n - s)
  IN SubSeq(arr, 1, s) \o items \o SubSeq(arr, s + d + 1, n)

\* newLines[i] = v on a copy (i is a valid index in every reachable state)
SetAt(arr, i, v) == IF i >= 0 /\ i < Len(arr) THEN [arr EXCEPT ![i + 1] = v] ELSE arr

\* ------------------------------------------------------------ editor-state
\* the characters typed into the buffer: one of each class of the tokenizer
\* (/[a-zA-Z0-9_]/, /\s/, anything else)
Alphabet == {"a", " ", ","}
WordChars == {"a"}
WhitespaceChars == {" ", "\t"}

\* content.split("\n")
RECURSIVE SplitLines(_)
SplitLines(content) ==
  LET idx == {i \in 1..Len(content) : content[i] = "\n"}
  IN IF idx = {} THEN << content >>
     ELSE LET i == CHOOSE j \in idx : \A k \in idx : j <= k
          IN << SubSeq(content, 1, i - 1) >> \o SplitLines(SubSeq(content, i + 1, Len(content)))

createEditorState(content, filePath) ==
  LET split == SplitLines(content)
      lines == IF Len(split) = 0 THEN << << >> >> ELSE split
  IN [mode |-> "normal", lines |-> lines, cursorLine |-> 0, cursorCol |-> 0,
      isDirty |-> FALSE, dirtyLines |-> {}, filePath |-> filePath,
      isReadOnly |-> FALSE, isReadOnlyReason |-> Null]

\* lines.join("\n")
RECURSIVE JoinLines(_)
JoinLines(lines) ==
  IF Len(lines) = 0 THEN << >>
  ELSE IF Len(lines) = 1 THEN lines[1]
  ELSE lines[1] \o << "\n" >> \o JoinLines(Tail(lines))

getEditorContent(state) == JoinLines(state.lines)

getCurrentLine(state) == At(state.lines, state.cursorLine)

\* ------------------------------------------------------- editor-navigation
moveLeft(state) == [state EXCEPT !.cursorCol = Max(0, state.cursorCol - 1)]

getMaxCol(lineContent, mode) ==
  IF mode = "insert" THEN Len(lineContent) ELSE Max(0, Len(lineContent) - 1)

moveRight(state) ==
  LET line == getCurrentLine(state)
      maxCol == getMaxCol(line, state.mode)
  IN [state EXCEPT !.cursorCol = Min(state.cursorCol + 1, maxCol)]

moveDown(state) ==
  LET newLine == Min(state.cursorLine + 1, Len(state.lines) - 1)
      newLineContent == At(state.lines, newLine)
      maxCol == getMaxCol(newLineContent, state.mode)
  IN [state EXCEPT !.cursorLine = newLine, !.cursorCol = Min(state.cursorCol, maxCol)]

moveUp(state) ==
  LET newLine == Max(0, state.cursorLine - 1)
      newLineContent == At(state.lines, newLine)
      maxCol == getMaxCol(newLineContent, state.mode)
  IN [state EXCEPT !.cursorLine = newLine, !.cursorCol = Min(state.cursorCol, maxCol)]

moveToLineStart(state) == [state EXCEPT !.cursorCol = 0]

moveToLineEnd(state) ==
  [state EXCEPT !.cursorCol = getMaxCol(getCurrentLine(state), state.mode)]

moveToFirstLine(state) == [state EXCEPT !.cursorLine = 0, !.cursorCol = 0]

moveToLastLine(state) ==
  [state EXCEPT !.cursorLine = Len(state.lines) - 1, !.cursorCol = 0]

isWordChar(char) == char \in WordChars

isWhitespace(char) == char \in WhitespaceChars

isPunctuation(char) == ~isWordChar(char) /\ ~isWhitespace(char)

RECURSIVE skipWhitespaceForward(_, _)
skipWhitespaceForward(lineContent, startCol) ==
  IF startCol < Len(lineContent) /\ isWhitespace(CharAt(lineContent, startCol))
  THEN skipWhitespaceForward(lineContent, startCol + 1)
  ELSE startCol

\* faulty variant: whitespace is not skipped on the way back
skipWhitespaceBackward_stays(lineContent, startCol) == startCol

RECURSIVE skipWhitespaceBackward(_, _)
skipWhitespaceBackward(lineContent, startCol) ==
  IF startCol > 0 /\ isWhitespace(CharAt(lineContent, startCol))
  THEN skipWhitespaceBackward(lineContent, startCol - 1)
  ELSE startCol

RECURSIVE SkipWhile(_, _, _)
SkipWhile(lineContent, col, class) ==
  IF col < Len(lineContent) /\ CharAt(lineContent, col) \in class
  THEN SkipWhile(lineContent, col + 1, class)
  ELSE col

RECURSIVE SkipWhilePunctuation(_, _)
SkipWhilePunctuation(lineContent, col) ==
  IF col < Len(lineContent) /\ isPunctuation(CharAt(lineContent, col))
  THEN SkipWhilePunctuation(lineContent, col + 1)
  ELSE col

skipCurrentTokenForward(lineContent, startCol) ==
  LET char == CharAt(lineContent, startCol)
  IN IF isWordChar(char) THEN SkipWhile(lineContent, startCol, WordChars)
     ELSE IF isWhitespace(char) THEN SkipWhile(lineContent, startCol, WhitespaceChars)
     ELSE SkipWhilePunctuation(lineContent, startCol)

RECURSIVE BackWhileWord(_, _)
BackWhileWord(lineContent, col) ==
  IF col > 0 /\ isWordChar(CharAt(lineContent, col - 1))
  THEN BackWhileWord(lineContent, col - 1)
  ELSE col

RECURSIVE BackWhilePunctuation(_, _)
BackWhilePunctuation(lineContent, col) ==
  IF col > 0 /\ isPunctuation(CharAt(lineContent, col - 1))
  THEN BackWhilePunctuation(lineContent, col - 1)
  ELSE col

findTokenStartBackward(lineContent, startCol) ==
  LET char == CharAt(lineContent, startCol)
  IN IF isWordChar(char) THEN BackWhileWord(lineContent, startCol)
     ELSE IF isPunctuation(char) THEN BackWhilePunctuation(lineContent, startCol)
     ELSE startCol

\* faulty variant: the motion never leaves the current line
moveToNextWord_staysOnLine(state) ==
  LET line == state.cursorLine
      col == state.cursorCol
      currentLine == At(state.lines, line)
      atOrPastLineEnd == col >= Len(currentLine) - 1
      col2 == skipWhitespaceForward(currentLine, skipCurrentTokenForward(currentLine, col))
  IN IF atOrPastLineEnd
     THEN [state EXCEPT !.cursorCol = getMaxCol(currentLine, state.mode)]
     ELSE [state EXCEPT !.cursorLine = line,
             !.cursorCol = Min(col2, getMaxCol(currentLine, state.mode))]

moveToNextWord(state) ==
  LET line == state.cursorLine
      col == state.cursorCol
      currentLine == At(state.lines, line)
      atOrPastLineEnd == col >= Len(currentLine) - 1
      canMoveToNextLine == line < Len(state.lines) - 1
      nextLine == At(state.lines, line + 1)
      toNextLine == [state EXCEPT !.cursorLine = line + 1,
                       !.cursorCol = Min(skipWhitespaceForward(nextLine, 0),
                                         getMaxCol(nextLine, state.mode))]
      col2 == skipWhitespaceForward(currentLine, skipCurrentTokenForward(currentLine, col))
  IN IF atOrPastLineEnd
     THEN IF canMoveToNextLine THEN toNextLine
          ELSE [state EXCEPT !.cursorCol = getMaxCol(currentLine, state.mode)]
     ELSE IF col2 >= Len(currentLine) /\ canMoveToNextLine THEN toNextLine
          ELSE [state EXCEPT !.cursorLine = line,
                  !.cursorCol = Min(col2, getMaxCol(currentLine, state.mode))]

moveToPreviousWord(state) ==
  IF state.cursorCol = 0 /\ ~(state.cursorLine > 0)
  THEN [state EXCEPT !.cursorCol = 0]
  ELSE
    LET wrapped == state.cursorCol = 0
        line == IF wrapped THEN state.cursorLine - 1 ELSE state.cursorLine
        col0 == IF wrapped THEN Len(At(state.lines, line)) ELSE state.cursorCol
        currentLine == At(state.lines, line)
        col1 == IF col0 > 0 THEN col0 - 1 ELSE col0
        col2 == skipWhitespaceBackward(currentLine, col1)
        atLineStartWithWhitespace ==
          col2 = 0 /\ isWhitespace(CharAt(currentLine, col2)) /\ line > 0
        prevLine == At(state.lines, line - 1)
    IN IF atLineStartWithWhitespace
       THEN [state EXCEPT !.cursorLine = line - 1,
               !.cursorCol = findTokenStartBackward(prevLine,
                               skipWhitespaceBackward(prevLine, Len(prevLine) - 1))]
       ELSE [state EXCEPT !.cursorLine = line,
               !.cursorCol = findTokenStartBackward(currentLine, col2)]

\* ----------------------------------------------------------- editor-insert
enterInsertMode(state) ==
  IF state.isReadOnly THEN state ELSE [state EXCEPT !.mode = "insert"]

enterInsertModeAfter(state) ==
  IF state.isReadOnly THEN state
  ELSE [state EXCEPT !.mode = "insert",
          !.cursorCol = Min(state.cursorCol + 1, Len(getCurrentLine(state)))]

exitInsertMode(state) ==
  LET line == getCurrentLine(state)
      maxCol == Max(0, Len(line) - 1)
  IN [state EXCEPT !.mode = "normal", !.cursorCol = Min(state.cursorCol, maxCol)]

insertChar(state, char) ==
  IF state.isReadOnly \/ state.mode # "insert" THEN state
  ELSE
    LET line == getCurrentLine(state)
        before == Slice(line, 0, state.cursorCol)
        after == SliceFrom(line, state.cursorCol)
        newLine == before \o << char >> \o after
    IN [state EXCEPT !.lines = SetAt(state.lines, state.cursorLine, newLine),
          !.cursorCol = state.cursorCol + 1,
          !.isDirty = TRUE,
          !.dirtyLines = state.dirtyLines \cup {state.cursorLine}]

\* faulty variant: after joining two lines the cursor goes to column 0
deleteCharBefore_joinAtStart(state) ==
  IF state.isReadOnly \/ state.mode # "insert" THEN state
  ELSE
    LET line == getCurrentLine(state)
    IN IF state.cursorCol = 0
       THEN IF state.cursorLine = 0 THEN state
            ELSE LET prevLine == At(state.lines, state.cursorLine - 1)
                     joinedLine == prevLine \o line
                 IN [state EXCEPT
                       !.lines = Splice(state.lines, state.cursorLine - 1, 2, << joinedLine >>),
                       !.cursorLine = state.cursorLine - 1,
                       !.cursorCol = 0,
                       !.isDirty = TRUE,
                       !.dirtyLines = state.dirtyLines \cup {state.cursorLine - 1}]
       ELSE LET before == Slice(line, 0, state.cursorCol - 1)
                after == SliceFrom(line, state.cursorCol)
            IN [state EXCEPT
                  !.lines = SetAt(state.lines, state.cursorLine, before \o after),
                  !.cursorCol = state.cursorCol - 1,
                  !.isDirty = TRUE,
                  !.dirtyLines = state.dirtyLines \cup {state.cursorLine}]

deleteCharBefore(state) ==
  IF state.isReadOnly \/ state.mode # "insert" THEN state
  ELSE
    LET line == getCurrentLine(state)
    IN IF state.cursorCol = 0
       THEN IF state.cursorLine = 0 THEN state
            ELSE LET prevLine == At(state.lines, state.cursorLine - 1)
                     joinedLine == prevLine \o line
                 IN [state EXCEPT
                       !.lines = Splice(state.lines, state.cursorLine - 1, 2, << joinedLine >>),
                       !.cursorLine = state.cursorLine - 1,
                       !.cursorCol = Len(prevLine),
                       !.isDirty = TRUE,
                       !.dirtyLines = state.dirtyLines \cup {state.cursorLine - 1}]
       ELSE LET before == Slice(line, 0, state.cursorCol - 1)
                after == SliceFrom(line, state.cursorCol)
            IN [state EXCEPT
                  !.lines = SetAt(state.lines, state.cursorLine, before \o after),
                  !.cursorCol = state.cursorCol - 1,
                  !.isDirty = TRUE,
                  !.dirtyLines = state.dirtyLines \cup {state.cursorLine}]

\* deleteCharBefore returns a state with a new lines array (before.lines !==
\* after.lines) exactly when it does not return its argument
deleteCharBeforeCopies(state) ==
  ~(state.isReadOnly \/ state.mode # "insert")
    /\ ~(state.cursorCol = 0 /\ state.cursorLine = 0)

insertNewLine(state) ==
  IF state.isReadOnly \/ state.mode # "insert" THEN state
  ELSE
    LET line == getCurrentLine(state)
        before == Slice(line, 0, state.cursorCol)
        after == SliceFrom(line, state.cursorCol)
    IN [state EXCEPT
          !.lines = Splice(state.lines, state.cursorLine, 1, << before, after >>),
          !.cursorLine = state.cursorLine + 1,
          !.cursorCol = 0,
          !.isDirty = TRUE,
          !.dirtyLines = state.dirtyLines \cup {state.cursorLine, state.cursorLine + 1}]

\* sequence of length 1 with char code in 32..126; the modelled keys carry
\* either one such character or the name of a control sequence
ControlSequences == {"ESC", "CR", "BS", "UP", "DOWN", "LEFT", "RIGHT", "^R", "^S"}

getPrintableChar(sequence) ==
  IF sequence \notin ControlSequences THEN sequence ELSE Null

openLineBelow(state) ==
  IF state.isReadOnly THEN state
  ELSE [state EXCEPT
          !.lines = Splice(state.lines, state.cursorLine + 1, 0, << << >> >>),
          !.cursorLine = state.cursorLine + 1,
          !.cursorCol = 0,
          !.mode = "insert",
          !.isDirty = TRUE,
          !.dirtyLines = state.dirtyLines \cup {state.cursorLine + 1}]

openLineAbove(state) ==
  IF state.isReadOnly THEN state
  ELSE [state EXCEPT
          !.lines = Splice(state.lines, state.cursorLine, 0, << << >> >>),
          !.cursorCol = 0,
          !.mode = "insert",
          !.isDirty = TRUE,
          !.dirtyLines = state.dirtyLines \cup {state.cursorLine}]

enterInsertModeAtEnd(state) ==
  IF state.isReadOnly THEN state
  ELSE [state EXCEPT !.mode = "insert", !.cursorCol = Len(getCurrentLine(state))]

enterInsertModeAtStart(state) ==
  IF state.isReadOnly THEN state
  ELSE [state EXCEPT !.mode = "insert", !.cursorCol = 0]

deleteCharUnderCursor(state) ==
  IF state.isReadOnly \/ state.mode # "normal" THEN state
  ELSE
    LET line == getCurrentLine(state)
        before == Slice(line, 0, state.cursorCol)
        after == SliceFrom(line, state.cursorCol + 1)
        newLine == before \o after
        newCursorCol == IF Len(newLine) = 0 THEN 0
                        ELSE Min(state.cursorCol, Len(newLine) - 1)
    IN IF Len(line) = 0 THEN state
       ELSE IF state.cursorCol >= Len(line) THEN state
       ELSE [state EXCEPT
               !.lines = SetAt(state.lines, state.cursorLine, newLine),
               !.cursorCol = newCursorCol,
               !.isDirty = TRUE,
               !.dirtyLines = state.dirtyLines \cup {state.cursorLine}]

shouldTriggerDeleteCharUnderCursor(key, mode) ==
  mode = "normal" /\ key.name = "x" /\ ~key.ctrl

\* -------------------------------------------------------- editor-clipboard
\* ClipboardState.content is a payload record or null; null is the payload
\* of type Null
NullContent == [type |-> Null, lines |-> << >>]

createClipboardState == [content |-> NullContent]

\* faulty variant: the yanked line is added to the previous payload
yankLine_appends(editorState_, clipboardState_) ==
  [content |-> [type |-> "line",
                lines |-> clipboardState_.content.lines
                            \o << At(editorState_.lines, editorState_.cursorLine) >>]]

yankLine(editorState_, clipboardState_) ==
  [content |-> [type |-> "line",
                lines |-> << At(editorState_.lines, editorState_.cursorLine) >>]]

\* faulty variant: the buffer is not refilled with an empty line when its
\* last line is deleted
deleteLine_noRefill(editorState_, clipboardState_) ==
  IF editorState_.isReadOnly
  THEN [editorState |-> editorState_, clipboardState |-> clipboardState_]
  ELSE
    LET line == At(editorState_.lines, editorState_.cursorLine)
        newLines == Splice(editorState_.lines, editorState_.cursorLine, 1, << >>)
        newCursorLine == Min(editorState_.cursorLine, Len(newLines) - 1)
        newLine == At(newLines, newCursorLine)
        newCursorCol == Min(editorState_.cursorCol, Max(0, Len(newLine) - 1))
    IN [editorState |-> [editorState_ EXCEPT
                           !.lines = newLines,
                           !.cursorLine = newCursorLine,
                           !.cursorCol = newCursorCol,
                           !.isDirty = TRUE,
                           !.dirtyLines = editorState_.dirtyLines \cup {newCursorLine}],
        clipboardState |-> [content |-> [type |-> "line", lines |-> << line >>]]]

\* faulty variant: a read-only buffer is left alone but its line is yanked
deleteLine_yanksReadOnly(editorState_, clipboardState_) ==
  IF editorState_.isReadOnly
  THEN [editorState |-> editorState_,
        clipboardState |-> [content |-> [type |-> "line",
                                         lines |-> << At(editorState_.lines,
                                                         editorState_.cursorLine) >>]]]
  ELSE
    LET line == At(editorState_.lines, editorState_.cursorLine)
        spliced == Splice(editorState_.lines, editorState_.cursorLine, 1, << >>)
        newLines == IF Len(spliced) = 0 THEN << << >> >> ELSE spliced
        newCursorLine == Min(editorState_.cursorLine, Len(newLines) - 1)
        newLine == At(newLines, newCursorLine)
        newCursorCol == Min(editorState_.cursorCol, Max(0, Len(newLine) - 1))
    IN [editorState |-> [editorState_ EXCEPT
                           !.lines = newLines,
                           !.cursorLine = newCursorLine,
                           !.cursorCol = newCursorCol,
                           !.isDirty = TRUE,
                           !.dirtyLines = editorState_.dirtyLines \cup {newCursorLine}],
        clipboardState |-> [content |-> [type |-> "line", lines |-> << line >>]]]

\* faulty variant: the removed line is not copied, the clipboard is kept
deleteLine_keepsClipboard(editorState_, clipboardState_) ==
  IF editorState_.isReadOnly
  THEN [editorState |-> editorState_, clipboardState |-> clipboardState_]
  ELSE
    LET spliced == Splice(editorState_.lines, editorState_.cursorLine, 1, << >>)
        newLines == IF Len(spliced) = 0 THEN << << >> >> ELSE spliced
        newCursorLine == Min(editorState_.cursorLine, Len(newLines) - 1)
        newLine == At(newLines, newCursorLine)
        newCursorCol == Min(editorState_.cursorCol, Max(0, Len(newLine) - 1))
    IN [editorState |-> [editorState_ EXCEPT
                           !.lines = newLines,
                           !.cursorLine = newCursorLine,
                           !.cursorCol = newCursorCol,
                           !.isDirty = TRUE,
                           !.dirtyLines = editorState_.dirtyLines \cup {newCursorLine}],
        clipboardState |-> clipboardState_]

deleteLine(editorState_, clipboardState_) ==
  IF editorState_.isReadOnly
  THEN [editorState |-> editorState_, clipboardState |-> clipboardState_]
  ELSE
    LET line == At(editorState_.lines, editorState_.cursorLine)
        newClipboardState == [content |-> [type |-> "line", lines |-> << line >>]]
        spliced == Splice(editorState_.lines, editorState_.cursorLine, 1, << >>)
        newLines == IF Len(spliced) = 0 THEN << << >> >> ELSE spliced
        newCursorLine == Min(editorState_.cursorLine, Len(newLines) - 1)
        newLine == At(newLines, newCursorLine)
        newCursorCol == Min(editorState_.cursorCol, Max(0, Len(newLine) - 1))
    IN [editorState |-> [editorState_ EXCEPT
                           !.lines = newLines,
                           !.cursorLine = newCursorLine,
                           !.cursorCol = newCursorCol,
                           !.isDirty = TRUE,
                           !.dirtyLines = editorState_.dirtyLines \cup {newCursorLine}],
        clipboardState |-> newClipboardState]

pasteAfter(editorState_, clipboardState_) ==
  IF editorState_.isReadOnly THEN editorState_
  ELSE IF clipboardState_.content = NullContent THEN editorState_
  ELSE IF clipboardState_.content.type # "line" THEN editorState_
  ELSE
    LET insertIndex == editorState_.cursorLine + 1
        pasted == clipboardState_.content.lines
    IN [editorState_ EXCEPT
          !.lines = Splice(editorState_.lines, insertIndex, 0, pasted),
          !.cursorLine = insertIndex,
          !.cursorCol = 0,
          !.isDirty = TRUE,
          !.dirtyLines = editorState_.dirtyLines
                           \cup {insertIndex + i : i \in 0..(Len(pasted) - 1)}]

\* faulty variant: P pastes below the cursor line, as p does
pasteBefore_below(editorState_, clipboardState_) ==
  pasteAfter(editorState_, clipboardState_)

pasteBefore(editorState_, clipboardState_) ==
  IF editorState_.isReadOnly THEN editorState_
  ELSE IF clipboardState_.content = NullContent THEN editorState_
  ELSE IF clipboardState_.content.type # "line" THEN editorState_
  ELSE
    LET insertIndex == editorState_.cursorLine
        pasted == clipboardState_.content.lines
    IN [editorState_ EXCEPT
          !.lines = Splice(editorState_.lines, insertIndex, 0, pasted),
          !.cursorLine = insertIndex,
          !.cursorCol = 0,
          !.isDirty = TRUE,
          !.dirtyLines = editorState_.dirtyLines
                           \cup {insertIndex + i : i \in 0..(Len(pasted) - 1)}]

shouldTriggerYankLine(key, lastKey_) == key.name = "y" /\ lastKey_ = "y"

shouldTriggerDeleteLine(key, lastKey_) == key.name = "d" /\ lastKey_ = "d"

shouldTriggerPasteAfter(key) == key.name = "p" /\ ~key.ctrl

shouldTriggerPasteBefore(key) == key.name = "p" /\ ~key.ctrl /\ key.sequence = "P"

\* ------------------------------------------------------------- editor-undo
MAX_UNDO_STACK_SIZE == 100

createUndoState == [undoStack |-> << >>, redoStack |-> << >>]

\* faulty variant: the redo stack survives a push
pushUndoOperation_keepsRedo(undoState_, operation) ==
  LET pushed == Append(undoState_.undoStack, operation)
      undoStack == IF Len(pushed) > MAX_UNDO_STACK_SIZE THEN Tail(pushed) ELSE pushed
  IN [undoStack |-> undoStack, redoStack |-> undoState_.redoStack]

\* faulty variant: a full stack drops the operation pushed, not the oldest
pushUndoOperation_dropsNewest(undoState_, operation) ==
  LET pushed == Append(undoState_.undoStack, operation)
      undoStack == IF Len(pushed) > MAX_UNDO_STACK_SIZE
                   THEN SubSeq(pushed, 1, MAX_UNDO_STACK_SIZE) ELSE pushed
  IN [undoStack |-> undoStack, redoStack |-> << >>]

pushUndoOperation(undoState_, operation) ==
  LET pushed == Append(undoState_.undoStack, operation)
      undoStack == IF Len(pushed) > MAX_UNDO_STACK_SIZE THEN Tail(pushed) ELSE pushed
  IN [undoStack |-> undoStack, redoStack |-> << >>]

canUndo(undoState_) == Len(undoState_.undoStack) > 0

canRedo(undoState_) == Len(undoState_.redoStack) > 0

\* the inverseOperation record built by performUndo and by performRedo
InverseOperation(operation) ==
  [type |-> operation.type,
   beforeLines |-> operation.afterLines,
   afterLines |-> operation.beforeLines,
   beforeCursorLine |-> operation.afterCursorLine,
   beforeCursorCol |-> operation.afterCursorCol,
   afterCursorLine |-> operation.beforeCursorLine,
   afterCursorCol |-> operation.beforeCursorCol]

performUndo(editorState_, undoState_) ==
  IF ~canUndo(undoState_)
  THEN [editorState |-> editorState_, undoState |-> undoState_]
  ELSE
    LET n == Len(undoState_.undoStack)
        operation == undoState_.undoStack[n]
        undoStack == SubSeq(undoState_.undoStack, 1, n - 1)
    IN [editorState |-> [editorState_ EXCEPT
                           !.lines = operation.beforeLines,
                           !.cursorLine = operation.beforeCursorLine,
                           !.cursorCol = operation.beforeCursorCol,
                           !.isDirty = TRUE],
        undoState |-> [undoStack |-> undoStack,
                       redoStack |-> Append(undoState_.redoStack,
                                            InverseOperation(operation))]]

\* faulty variant: the redone entry stays on the redo stack
performRedo_keepsEntry(editorState_, undoState_) ==
  IF ~canRedo(undoState_)
  THEN [editorState |-> editorState_, undoState |-> undoState_]
  ELSE
    LET n == Len(undoState_.redoStack)
        operation == undoState_.redoStack[n]
    IN [editorState |-> [editorState_ EXCEPT
                           !.lines = operation.afterLines,
                           !.cursorLine = operation.afterCursorLine,
                           !.cursorCol = operation.afterCursorCol,
                           !.isDirty = TRUE],
        undoState |-> [undoStack |-> Append(undoState_.undoStack,
                                            InverseOperation(operation)),
                       redoStack |-> undoState_.redoStack]]

performRedo(editorState_, undoState_) ==
  IF ~canRedo(undoState_)
  THEN [editorState |-> editorState_, undoState |-> undoState_]
  ELSE
    LET n == Len(undoState_.redoStack)
        operation == undoState_.redoStack[n]
        redoStack == SubSeq(undoState_.redoStack, 1, n - 1)
    IN [editorState |-> [editorState_ EXCEPT
                           !.lines = operation.afterLines,
                           !.cursorLine = operation.afterCursorLine,
                           !.cursorCol = operation.afterCursorCol,
                           !.isDirty = TRUE],
        undoState |-> [undoStack |-> Append(undoState_.undoStack,
                                            InverseOperation(operation)),
                       redoStack |-> redoStack]]

clearUndoStack(undoState_) == [undoStack |-> << >>, redoStack |-> << >>]

\* faulty variant: the cursor column before the edit is taken from the state
\* after it
createUndoOperation_afterCol(type, beforeState, afterState) ==
  [type |-> type,
   beforeLines |-> beforeState.lines,
   afterLines |-> afterState.lines,
   beforeCursorLine |-> beforeState.cursorLine,
   beforeCursorCol |-> afterState.cursorCol,
   afterCursorLine |-> afterState.cursorLine,
   afterCursorCol |-> afterState.cursorCol]

createUndoOperation(type, beforeState, afterState) ==
  [type |-> type,
   beforeLines |-> beforeState.lines,
   afterLines |-> afterState.lines,
   beforeCursorLine |-> beforeState.cursorLine,
   beforeCursorCol |-> beforeState.cursorCol,
   afterCursorLine |-> afterState.cursorLine,
   afterCursorCol |-> afterState.cursorCol]

shouldTriggerUndo(key) == key.name = "u" /\ ~key.ctrl

shouldTriggerRedo(key) == key.ctrl /\ key.name = "r"

\* ------------------------------------------------------------- editor-save
createSaveState == [promptState |-> "none"]

startSaveConfirmation(saveState_, filePath) == [saveState_ EXCEPT !.promptState = "confirming"]

cancelSaveConfirmation(saveState_) == [saveState_ EXCEPT !.promptState = "none"]

setSavedMessage(saveState_) == [saveState_ EXCEPT !.promptState = "saved"]

\* faulty variant: the dirty-line set survives the save
markAsSaved_keepsDirtyLines(state) == [state EXCEPT !.isDirty = FALSE]

markAsSaved(state) == [state EXCEPT !.isDirty = FALSE, !.dirtyLines = {}]

shouldTriggerSave(key) == key.ctrl /\ key.name = "s"

\* performSave up to its first await: the two synchronous refusals, or the
\* content snapshot with which the backup step is started
performSaveStart(state) ==
  IF state.filePath = Null THEN [started |-> FALSE, error |-> "No file path specified"]
  ELSE IF state.isReadOnly THEN [started |-> FALSE, error |-> "File is read-only"]
  ELSE [started |-> TRUE, content |-> getEditorContent(state)]

\* faulty variant: the write goes ahead whatever createBackup returned
performSaveAfterBackup_writesAnyway(backupSuccess) == [write |-> TRUE, error |-> Null]

\* performSave after createBackup has resolved
performSaveAfterBackup(backupSuccess) ==
  IF ~backupSuccess THEN [write |-> FALSE, error |-> "Failed to create backup"]
  ELSE [write |-> TRUE, error |-> Null]

\* performSave after saveFile has resolved
performSaveAfterWrite(saveSuccess) ==
  IF ~saveSuccess THEN [success |-> FALSE, error |-> "Failed to save file"]
  ELSE [success |-> TRUE, error |-> Null]

\* ------------------------------------------------------------- editor-quit
createQuitState == [promptState |-> "none", shouldQuit |-> FALSE, quitAction |-> Null]

startQuitConfirmation(quitState_) ==
  [quitState_ EXCEPT !.promptState = "confirming", !.shouldQuit = FALSE, !.quitAction = Null]

cancelQuitConfirmation(quitState_) ==
  [quitState_ EXCEPT !.promptState = "none", !.shouldQuit = FALSE, !.quitAction = Null]

confirmQuitWithSave(quitState_) ==
  [quitState_ EXCEPT !.promptState = "quitting", !.shouldQuit = TRUE,
                     !.quitAction = "save_and_quit"]

\* faulty variant: declining the save at the prompt saves all the same
confirmQuitWithoutSave_savesFirst(quitState_) ==
  [quitState_ EXCEPT !.promptState = "quitting", !.shouldQuit = TRUE,
                     !.quitAction = "save_and_quit"]

confirmQuitWithoutSave(quitState_) ==
  [quitState_ EXCEPT !.promptState = "quitting", !.shouldQuit = TRUE,
                     !.quitAction = "quit_without_save"]

forceQuit(quitState_) ==
  [quitState_ EXCEPT !.promptState = "quitting", !.shouldQuit = TRUE,
                     !.quitAction = "quit_without_save"]

\* faulty variant: a dirty buffer may be quit at once
canQuitImmediately_always(editorState_) == TRUE

canQuitImmediately(editorState_) == ~editorState_.isDirty

\* ---------------------------------------------------------- editor-command
createCommandState == [mode |-> "none", buffer |-> << >>]

startCommandMode(state) == [mode |-> "active", buffer |-> << ":" >>]

appendToCommand(state, char) ==
  IF state.mode # "active" THEN state
  ELSE [state EXCEPT !.buffer = state.buffer \o << char >>]

\* faulty variant: deleting the last character leaves the command line open
deleteFromCommand_emptyPrompt(state) ==
  IF state.mode # "active" THEN [mode |-> "none", buffer |-> << >>]
  ELSE [state EXCEPT !.buffer = Slice(state.buffer, 0, -1)]

deleteFromCommand(state) ==
  IF state.mode # "active" \/ Len(state.buffer) <= 1
  THEN [mode |-> "none", buffer |-> << >>]
  ELSE [state EXCEPT !.buffer = Slice(state.buffer, 0, -1)]

cancelCommandMode(state) == [mode |-> "none", buffer |-> << >>]

\* faulty variant: the command line stays open after Enter
executeCommand_staysOpen(state) ==
  [command |-> state.buffer, state |-> state]

executeCommand(state) ==
  [command |-> state.buffer, state |-> [mode |-> "none", buffer |-> << >>]]

\* String.prototype.trim
RECURSIVE TrimStart(_)
TrimStart(str) ==
  IF Len(str) > 0 /\ isWhitespace(str[1]) THEN TrimStart(Tail(str)) ELSE str

RECURSIVE TrimEnd(_)
TrimEnd(str) ==
  IF Len(str) > 0 /\ isWhitespace(str[Len(str)])
  THEN TrimEnd(SubSeq(str, 1, Len(str) - 1)) ELSE str

Trim(str) == TrimEnd(TrimStart(str))

\* faulty variant: the command line is compared as typed, untrimmed
parseCommand_untrimmed(command) ==
  IF command = << ":", "w" >> THEN [type |-> "save"]
  ELSE IF command = << ":", "q" >> THEN [type |-> "quit"]
  ELSE IF command = << ":", "w", "q" >> \/ command = << ":", "x" >>
    THEN [type |-> "save_quit"]
  ELSE IF command = << ":", "q", "!" >> THEN [type |-> "force_quit"]
  ELSE [type |-> "unknown", command |-> command]

parseCommand(command) ==
  LET trimmed == Trim(command)
  IN IF trimmed = << ":", "w" >> THEN [type |-> "save"]
     ELSE IF trimmed = << ":", "q" >> THEN [type |-> "quit"]
     ELSE IF trimmed = << ":", "w", "q" >> \/ trimmed = << ":", "x" >>
       THEN [type |-> "save_quit"]
     ELSE IF trimmed = << ":", "q", "!" >> THEN [type |-> "force_quit"]
     ELSE [type |-> "unknown", command |-> trimmed]

shouldStartCommandMode(editorState_, key) ==
  IF editorState_.mode # "normal" THEN FALSE ELSE key.sequence = ":"

\* --------------------------------------------------------- editor-readonly
MAX_FILE_SIZE_BYTES == 1048576
BINARY_CHECK_BYTES == 8192

\* A file is described by its path split at the separator ("/a/b" is
\* << "", "a", "b" >>, the relative "a/b" is << "a", "b" >>), its size in
\* bytes, the offset of its first NUL byte (-1: none), and whether the probe
\* of isFileTooLarge and the probe of isBinaryFile raise an I/O error.
\* filePath.includes("/dir/"): dir has a separator on either side
PathIncludesDir(path, dir) == \E i \in 2..(Len(path) - 1) : path[i] = dir

isInNodeModules(filePath) == PathIncludesDir(filePath, "node_modules")

isInGitDirectory(filePath) == PathIncludesDir(filePath, ".git")

isFileTooLarge(file) ==
  IF file.sizeError THEN FALSE ELSE file.size > MAX_FILE_SIZE_BYTES

isBinaryFile(file) ==
  IF file.readError THEN FALSE
  ELSE LET bytesToRead == Min(file.size, BINARY_CHECK_BYTES)
       IN IF bytesToRead = 0 THEN FALSE
          ELSE file.nulAt >= 0 /\ file.nulAt < bytesToRead

checkReadOnly(file) ==
  IF isInNodeModules(file.path) THEN [isReadOnly |-> TRUE, reason |-> "node_modules"]
  ELSE IF isInGitDirectory(file.path) THEN [isReadOnly |-> TRUE, reason |-> "git_directory"]
  ELSE IF isFileTooLarge(file) THEN [isReadOnly |-> TRUE, reason |-> "file_too_large"]
  ELSE IF isBinaryFile(file) THEN [isReadOnly |-> TRUE, reason |-> "binary_file"]
  ELSE [isReadOnly |-> FALSE, reason |-> Null]

\* checkReadOnly awaits real I/O only in isBinaryFile's slice.arrayBuffer();
\* every other path through it resolves before the first key event
ProbeReadsContent(file) ==
  /\ ~isInNodeModules(file.path) /\ ~isInGitDirectory(file.path)
  /\ ~isFileTooLarge(file)
  /\ ~file.readError /\ Min(file.size, BINARY_CHECK_BYTES) > 0

\* ------------------------------------------------------------------ inputs
File(id, path, size, nulAt, sizeError, readError) ==
  [id |-> id, path |-> path, size |-> size, nulAt |-> nulAt,
   sizeError |-> sizeError, readError |-> readError]

NoContent == [exists |-> FALSE, content |-> << >>]

\* props.filePath = null
NoFile == File(Null, << >>, 0, -1, FALSE, FALSE)
PlainFile == File("/w/f.txt", << "", "w", "f.txt" >>, 5, -1, FALSE, FALSE)
BinaryFile == File("/w/f.bin", << "", "w", "f.bin" >>, 5, 2, FALSE, FALSE)
LargeFile == File("/w/big.txt", << "", "w", "big.txt" >>, 1048577, -1, FALSE, FALSE)
ModuleFile ==
  File("/w/node_modules/m.js", << "", "w", "node_modules", "m.js" >>, 5, -1, FALSE, FALSE)
GitFile == File("/w/.git/config", << "", "w", ".git", "config" >>, 5, -1, FALSE, FALSE)

Key(name, sequence, ctrl) == [name |-> name, sequence |-> sequence, ctrl |-> ctrl]

\* a shifted letter arrives with the upper-case sequence; its name is the
\* lower-case letter (as shouldTriggerPasteBefore expects) or, from a host
\* that names the character typed, the upper-case one
ShiftedKeys ==
  {Key("a", "A", FALSE), Key("A", "A", FALSE), Key("i", "I", FALSE),
   Key("I", "I", FALSE), Key("o", "O", FALSE), Key("O", "O", FALSE),
   Key("p", "P", FALSE), Key("g", "G", FALSE)}

ControlKeys ==
  {Key("escape", "ESC", FALSE), Key("return", "CR", FALSE), Key("backspace", "BS", FALSE),
   Key("up", "UP", FALSE), Key("down", "DOWN", FALSE), Key("left", "LEFT", FALSE),
   Key("right", "RIGHT", FALSE), Key("r", "^R", TRUE), Key("s", "^S", TRUE)}

\* the command lines typed in the sessions explored
CmdInputs ==
  { << ":" >>, << ":", "w" >>, << ":", "q" >>, << ":", "w", "q" >>, << ":", "x" >>,
    << ":", "q", "!" >>, << ":", "q", "q" >> }

\* ------------------------------------------------------------------- state
VARIABLES
  editorState,     \* Editor: editorState signal
  undoState,       \* Editor: undoState signal
  clipboardState,  \* Editor: clipboardState signal
  lastKey,         \* Editor: lastKey signal
  commandState,    \* Editor: commandState signal
  saveState,       \* Editor: saveState signal
  quitState,       \* Editor: quitState signal
  props,           \* Editor: props (embedded) and the file behind props.filePath
  mountCheck,      \* onMount: "pending" while checkReadOnly awaits I/O, else "done"
  pending,         \* key handlers suspended at an await of performSave
  disk,            \* persistence: the file at filePath (exists, content)
  backup,          \* persistence: the file at filePath + ".bak"
  ioLog,           \* persistence calls and save results, in order
  saves,           \* number of performSave calls that reached the backup step
  exits,           \* number of props.onExit() calls
  pushCount,       \* undo-log specification: operations pushed so far
  lastEvent,       \* what the last step did (observation only)
  lockFile,        \* terminal: content of CANVAS_LOCK_FILE, Null while it does not exist
  spawners,        \* terminal: the spawnCanvas invocations and where each one stands
  socketBuffers,   \* createIPCServer: socketBuffers, the unfinished line of each socket
  wire,            \* IPC: bytes each client has written that have not arrived yet
  received,        \* IPC: the lines handed to JSON.parse and onMessage, per socket
  ipcCall          \* spawnCanvasWithIPC: the closure of one call and its environment

editorVars ==
  << editorState, undoState, clipboardState, lastKey, commandState, saveState,
     quitState, props, mountCheck, pending, disk, backup, ioLog, saves, exits,
     pushCount, lastEvent >>

canvasVars == << lockFile, spawners, socketBuffers, wire, received, ipcCall >>

vars == << editorVars, canvasVars >>

\* no canvas is being spawned and no IPC server exists
CanvasIdle ==
  /\ lockFile = << >>
  /\ spawners = << >>
  /\ socketBuffers = << >>
  /\ wire = << >>
  /\ received = << >>
  /\ ipcCall = "null"

\* --------------------------------------------------- Editor: the controller
\* The handlers below are written over a record c holding the signals.
Cur ==
  [editorState |-> editorState, undoState |-> undoState,
   clipboardState |-> clipboardState, lastKey |-> lastKey,
   commandState |-> commandState, saveState |-> saveState, quitState |-> quitState,
   pending |-> pending, ioLog |-> ioLog, saves |-> saves, exits |-> exits,
   lastEvent |-> lastEvent]

Ev(tag, info) == [tag |-> tag, info |-> info]

IoCall(save, call, ok) == [save |-> save, call |-> call, ok |-> ok]

\* faulty variant: the operation records the state before the edit twice
pushUndo_staleAfter(c, beforeState, afterState, type) ==
  [c EXCEPT
     !.undoState = pushUndoOperation(c.undoState,
                                     createUndoOperation(type, beforeState, beforeState)),
     !.lastEvent = Ev("push", IF Len(c.undoState.redoStack) > 0
                              THEN "redo_dropped" ELSE "")]

\* pushUndo: createUndoOperation + setUndoState(pushUndoOperation)
pushUndo(c, beforeState, afterState, type) ==
  [c EXCEPT
     !.undoState = pushUndoOperation(c.undoState,
                                     createUndoOperation(type, beforeState, afterState)),
     !.lastEvent = Ev("push", IF Len(c.undoState.redoStack) > 0
                              THEN "redo_dropped" ELSE "")]

\* props.onExit()
onExit(c) == [c EXCEPT !.exits = c.exits + 1, !.lastEvent = Ev("exit", c.lastEvent.info)]

\* faulty variant: handleQuit goes on to onExit after a failed save
SaveResolved_exitsOnFailure(c, origin, captured, success, error) ==
  IF success
  THEN [c EXCEPT !.editorState = markAsSaved(IF origin = "quit" THEN captured
                                             ELSE c.editorState),
                 !.undoState = clearUndoStack(c.undoState),
                 !.saveState = IF origin = "confirm" THEN createSaveState ELSE c.saveState,
                 !.exits = IF origin = "confirm" THEN c.exits ELSE c.exits + 1,
                 !.lastEvent = Ev("save_ok", origin)]
  ELSE [c EXCEPT !.saveState = IF origin = "confirm" THEN createSaveState ELSE c.saveState,
                 !.quitState = IF origin = "quit" THEN createQuitState ELSE c.quitState,
                 !.exits = IF origin = "quit" THEN c.exits + 1 ELSE c.exits,
                 !.lastEvent = Ev("save_fail", error)]

\* faulty variant: :wq goes on to onExit whatever performSave returned
SaveResolved_wqExitsAnyway(c, origin, captured, success, error) ==
  IF origin = "confirm"
  THEN IF success
       THEN [c EXCEPT !.editorState = markAsSaved(c.editorState),
                      !.undoState = clearUndoStack(c.undoState),
                      !.saveState = createSaveState,
                      !.lastEvent = Ev("save_ok", origin)]
       ELSE [c EXCEPT !.saveState = createSaveState,
                      !.lastEvent = Ev("save_fail", error)]
  ELSE IF origin = "wq"
  THEN IF success
       THEN [c EXCEPT !.editorState = markAsSaved(c.editorState),
                      !.undoState = clearUndoStack(c.undoState),
                      !.exits = c.exits + 1,
                      !.lastEvent = Ev("save_ok", origin)]
       ELSE [c EXCEPT !.exits = c.exits + 1,
                      !.lastEvent = Ev("save_fail", error)]
  ELSE IF success
       THEN [c EXCEPT !.editorState = markAsSaved(captured),
                      !.undoState = clearUndoStack(c.undoState),
                      !.exits = c.exits + 1,
                      !.lastEvent = Ev("save_ok", origin)]
       ELSE [c EXCEPT !.quitState = createQuitState,
                      !.lastEvent = Ev("save_fail", error)]

\* The code after each of the three awaits of a save: origin "confirm" is
\* y at the save prompt, "wq" is :wq / :x, "quit" is handleQuit's
\* handleSaveAndQuit, whose newState is markAsSaved of the captured state.
SaveResolved(c, origin, captured, success, error) ==
  IF origin = "confirm"
  THEN IF success
       THEN [c EXCEPT !.editorState = markAsSaved(c.editorState),
                      !.undoState = clearUndoStack(c.undoState),
                      !.saveState = createSaveState,
                      !.lastEvent = Ev("save_ok", origin)]
       ELSE [c EXCEPT !.saveState = createSaveState,
                      !.lastEvent = Ev("save_fail", error)]
  ELSE IF origin = "wq"
  THEN IF success
       THEN [c EXCEPT !.editorState = markAsSaved(c.editorState),
                      !.undoState = clearUndoStack(c.undoState),
                      !.exits = c.exits + 1,
                      !.lastEvent = Ev("save_ok", origin)]
       ELSE [c EXCEPT !.lastEvent = Ev("save_fail", error)]
  ELSE IF success
       THEN [c EXCEPT !.editorState = markAsSaved(captured),
                      !.undoState = clearUndoStack(c.undoState),
                      !.exits = c.exits + 1,
                      !.lastEvent = Ev("save_ok", origin)]
       ELSE [c EXCEPT !.quitState = createQuitState,
                      !.lastEvent = Ev("save_fail", error)]

\* await performSave(state): refused at once, or suspended at createBackup
StartSave(c, origin, state) ==
  LET start == performSaveStart(state)
  IN IF ~start.started
     THEN SaveResolved(c, origin, state, FALSE, start.error)
     ELSE [c EXCEPT
             !.pending = c.pending \cup {[id |-> c.saves + 1, origin |-> origin,
                                           state |-> state, content |-> start.content,
                                           stage |-> "backup"]},
             !.saves = c.saves + 1,
             !.lastEvent = Ev("save_start", origin)]

handleQuit(c) ==
  IF c.quitState.shouldQuit
  THEN IF c.quitState.quitAction = "save_and_quit"
       THEN StartSave(c, "quit", c.editorState)
       ELSE onExit(c)
  ELSE c

\* useKeyboard: quit.promptState === "confirming"
HandleQuitConfirm(c, key) ==
  IF key.name = "y"
    THEN handleQuit([c EXCEPT !.quitState = confirmQuitWithSave(c.quitState)])
  ELSE IF key.name = "n"
    THEN handleQuit([c EXCEPT !.quitState = confirmQuitWithoutSave(c.quitState)])
  ELSE IF key.name = "c" \/ key.name = "escape"
    THEN [c EXCEPT !.quitState = cancelQuitConfirmation(c.quitState)]
  ELSE c

\* useKeyboard: save.promptState === "confirming"
HandleSaveConfirm(c, key) ==
  IF key.name = "y" THEN StartSave(c, "confirm", c.editorState)
  ELSE IF key.name = "n" \/ key.name = "escape"
    THEN [c EXCEPT !.saveState = cancelSaveConfirmation(c.saveState)]
  ELSE c

\* the save hotkey and the :w command
RequestSave(c) ==
  IF c.editorState.filePath # Null
  THEN [c EXCEPT !.saveState = startSaveConfirmation(c.saveState, c.editorState.filePath)]
  ELSE c

\* useKeyboard: command.mode === "active"
HandleCommand(c, key) ==
  LET state == c.editorState
  IN IF key.name = "escape"
       THEN [c EXCEPT !.commandState = cancelCommandMode(c.commandState)]
     ELSE IF key.name = "return"
       THEN LET exec == executeCommand(c.commandState)
                c1 == [c EXCEPT !.commandState = exec.state]
                parsed == parseCommand(exec.command)
            IN IF parsed.type = "save" THEN RequestSave(c1)
               ELSE IF parsed.type = "quit"
                 THEN IF canQuitImmediately(state) THEN onExit(c1)
                      ELSE [c1 EXCEPT !.quitState = startQuitConfirmation(c1.quitState)]
               ELSE IF parsed.type = "save_quit"
                 THEN IF state.isDirty THEN StartSave(c1, "wq", state) ELSE onExit(c1)
               ELSE IF parsed.type = "force_quit"
                 THEN handleQuit([c1 EXCEPT !.quitState = forceQuit(c1.quitState)])
               ELSE c1
     ELSE IF key.name = "backspace"
       THEN [c EXCEPT !.commandState = deleteFromCommand(c.commandState)]
     ELSE IF getPrintableChar(key.sequence) # Null
       THEN [c EXCEPT !.commandState =
                        appendToCommand(c.commandState, getPrintableChar(key.sequence))]
     ELSE c

\* setLastKey(k).  lastKey() is only ever compared with "g", "y" and "d", so
\* every other key name is recorded as null.
setLastKey(c, k) == [c EXCEPT !.lastKey = IF k \in {"g", "y", "d"} THEN k ELSE Null]

\* faulty variant: the refused key switches to insert mode all the same
showReadOnlyMessage_entersInsert(c) ==
  [c EXCEPT !.editorState = [c.editorState EXCEPT !.mode = "insert"]]

\* showTemporaryMessage(getReadOnlyReasonMessage(state.isReadOnlyReason)): the
\* edit is refused
showReadOnlyMessage(c) ==
  [c EXCEPT !.lastEvent = Ev("read_only", c.editorState.isReadOnlyReason)]

\* setEditorState(f) followed by setLastKey(k)
Moved(c, newState, k) == setLastKey([c EXCEPT !.editorState = newState], k)

\* a mutation of normal mode: setEditorState, pushUndo(before, editorState(), type)
Mutated(c, newState, type, k) ==
  setLastKey([pushUndo(c, c.editorState, newState, type) EXCEPT
                !.editorState = newState], k)

\* useKeyboard: state.mode === "normal"
HandleNormal(c, key) ==
  LET state == c.editorState
  IN IF shouldStartCommandMode(state, key)
       THEN [c EXCEPT !.commandState = startCommandMode(c.commandState)]
     ELSE IF key.name = "escape" \/ (key.name = "q" /\ props.embedded)
       THEN IF canQuitImmediately(state) THEN onExit(c)
            ELSE [c EXCEPT !.quitState = startQuitConfirmation(c.quitState)]
     ELSE IF key.name = "h" \/ key.name = "left" THEN Moved(c, moveLeft(state), "h")
     ELSE IF key.name = "l" \/ key.name = "right" THEN Moved(c, moveRight(state), "l")
     ELSE IF key.name = "j" \/ key.name = "down" THEN Moved(c, moveDown(state), "j")
     ELSE IF key.name = "k" \/ key.name = "up" THEN Moved(c, moveUp(state), "k")
     ELSE IF key.name = "0" THEN Moved(c, moveToLineStart(state), "0")
     ELSE IF key.sequence = "$" THEN Moved(c, moveToLineEnd(state), "$")
     ELSE IF key.name = "g" /\ c.lastKey = "g" THEN Moved(c, moveToFirstLine(state), Null)
     ELSE IF key.sequence = "G" THEN Moved(c, moveToLastLine(state), Null)
     ELSE IF key.name = "g" THEN setLastKey(c, "g")
     ELSE IF key.name = "w" THEN Moved(c, moveToNextWord(state), "w")
     ELSE IF key.name = "b" THEN Moved(c, moveToPreviousWord(state), "b")
     ELSE IF key.name = "i"
       THEN IF state.isReadOnly THEN showReadOnlyMessage(c)
            ELSE Moved(c, enterInsertMode(state), "i")
     ELSE IF key.name = "a"
       THEN IF state.isReadOnly THEN showReadOnlyMessage(c)
            ELSE Moved(c, enterInsertModeAfter(state), "a")
     ELSE IF key.sequence = "A"
       THEN IF state.isReadOnly THEN showReadOnlyMessage(c)
            ELSE Moved(c, enterInsertModeAtEnd(state), "A")
     ELSE IF key.sequence = "I"
       THEN IF state.isReadOnly THEN showReadOnlyMessage(c)
            ELSE Moved(c, enterInsertModeAtStart(state), "I")
     ELSE IF key.name = "o"
       THEN IF state.isReadOnly THEN showReadOnlyMessage(c)
            ELSE Mutated(c, openLineBelow(state), "insert_line", "o")
     ELSE IF key.sequence = "O"
       THEN IF state.isReadOnly THEN showReadOnlyMessage(c)
            ELSE Mutated(c, openLineAbove(state), "insert_line", "O")
     ELSE IF shouldTriggerDeleteCharUnderCursor(key, state.mode)
       THEN IF state.isReadOnly THEN showReadOnlyMessage(c)
            ELSE Mutated(c, deleteCharUnderCursor(state), "delete_char", "x")
     ELSE IF shouldTriggerUndo(key)
       THEN LET result == performUndo(state, c.undoState)
            IN setLastKey([c EXCEPT !.editorState = result.editorState,
                                    !.undoState = result.undoState,
                                    !.lastEvent = Ev("undo", "")], "u")
     ELSE IF shouldTriggerRedo(key)
       THEN LET result == performRedo(state, c.undoState)
            IN setLastKey([c EXCEPT !.editorState = result.editorState,
                                    !.undoState = result.undoState,
                                    !.lastEvent = Ev("redo", "")], Null)
     ELSE IF shouldTriggerYankLine(key, c.lastKey)
       THEN setLastKey([c EXCEPT !.clipboardState = yankLine(state, c.clipboardState)],
                       Null)
     ELSE IF key.name = "y" THEN setLastKey(c, "y")
     ELSE IF shouldTriggerDeleteLine(key, c.lastKey)
       THEN IF state.isReadOnly THEN setLastKey(showReadOnlyMessage(c), Null)
            ELSE LET result == deleteLine(state, c.clipboardState)
                 IN setLastKey([pushUndo(c, state, result.editorState, "delete_line")
                                  EXCEPT !.editorState = result.editorState,
                                         !.clipboardState = result.clipboardState],
                               Null)
     ELSE IF key.name = "d" THEN setLastKey(c, "d")
     ELSE IF shouldTriggerPasteAfter(key) /\ ~shouldTriggerPasteBefore(key)
       THEN IF state.isReadOnly THEN showReadOnlyMessage(c)
            ELSE Mutated(c, pasteAfter(state, c.clipboardState), "insert_line", "p")
     ELSE IF shouldTriggerPasteBefore(key)
       THEN IF state.isReadOnly THEN showReadOnlyMessage(c)
            ELSE Mutated(c, pasteBefore(state, c.clipboardState), "insert_line", "P")
     ELSE setLastKey(c, key.name)

\* useKeyboard: state.mode === "insert"
HandleInsert(c, key) ==
  LET state == c.editorState
  IN IF key.name = "escape" THEN Moved(c, exitInsertMode(state), Null)
     ELSE IF key.name = "backspace"
       THEN LET after == deleteCharBefore(state)
                c1 == [c EXCEPT !.editorState = after]
            IN IF deleteCharBeforeCopies(state)
               THEN [pushUndo(c1, state, after,
                              IF state.cursorCol = 0 THEN "join_lines" ELSE "delete_char")
                       EXCEPT !.editorState = after]
               ELSE c1
     ELSE IF key.name = "return"
       THEN LET after == insertNewLine(state)
            IN [pushUndo(c, state, after, "split_line") EXCEPT !.editorState = after]
     ELSE IF key.name = "up" THEN [c EXCEPT !.editorState = moveUp(state)]
     ELSE IF key.name = "down" THEN [c EXCEPT !.editorState = moveDown(state)]
     ELSE IF key.name = "left" THEN [c EXCEPT !.editorState = moveLeft(state)]
     ELSE IF key.name = "right" THEN [c EXCEPT !.editorState = moveRight(state)]
     ELSE IF getPrintableChar(key.sequence) # Null
       THEN LET after == insertChar(state, getPrintableChar(key.sequence))
            IN [pushUndo(c, state, after, "insert_char") EXCEPT !.editorState = after]
     ELSE c

\* faulty variant: the save hotkey is tested before the command overlay
HandleKey_hotkeyFirst(c0, key) ==
  LET c == [c0 EXCEPT !.lastEvent =
                         Ev("key", IF c0.quitState.promptState = "confirming"
                                   THEN "quit_prompt" ELSE "")]
  IN IF c.quitState.shouldQuit THEN handleQuit(c)
     ELSE IF c.quitState.promptState = "confirming" THEN HandleQuitConfirm(c, key)
     ELSE IF c.saveState.promptState = "confirming" THEN HandleSaveConfirm(c, key)
     ELSE IF shouldTriggerSave(key) THEN RequestSave(c)
     ELSE IF c.commandState.mode = "active" THEN HandleCommand(c, key)
     ELSE IF c.editorState.mode = "normal" THEN HandleNormal(c, key)
     ELSE IF c.editorState.mode = "insert" THEN HandleInsert(c, key)
     ELSE c

\* the useKeyboard callback, up to its first await
HandleKey(c0, key) ==
  LET c == [c0 EXCEPT !.lastEvent =
                         Ev("key", IF c0.quitState.promptState = "confirming"
                                   THEN "quit_prompt" ELSE "")]
  IN IF c.quitState.shouldQuit THEN handleQuit(c)
     ELSE IF c.quitState.promptState = "confirming" THEN HandleQuitConfirm(c, key)
     ELSE IF c.saveState.promptState = "confirming" THEN HandleSaveConfirm(c, key)
     ELSE IF c.commandState.mode = "active" THEN HandleCommand(c, key)
     ELSE IF shouldTriggerSave(key) THEN RequestSave(c)
     ELSE IF c.editorState.mode = "normal" THEN HandleNormal(c, key)
     ELSE IF c.editorState.mode = "insert" THEN HandleInsert(c, key)
     ELSE c

\* ------------------------------------------------------------ specification
\* the buffers, histories and saves explored
WithinBounds(c) ==
  /\ Len(c.editorState.lines) <= MaxLines
  /\ \A i \in 1..Len(c.editorState.lines) : Len(c.editorState.lines[i]) <= MaxLineLen
  /\ c.editorState.cursorCol >= -MaxNegCol
  /\ Len(c.undoState.undoStack) <= MaxHistory
  /\ Cardinality(c.pending) <= MaxInflight
  /\ c.saves <= MaxSaves
  /\ c.commandState.mode = "active"
       => \E input \in CmdInputs : \E i \in 1..2 : \E j \in 0..Len(input) :
            c.commandState.buffer = SubSeq(input, i, j)

Assign(c) ==
  /\ editorState' = c.editorState
  /\ undoState' = c.undoState
  /\ clipboardState' = c.clipboardState
  /\ lastKey' = c.lastKey
  /\ commandState' = c.commandState
  /\ saveState' = c.saveState
  /\ quitState' = c.quitState
  /\ pending' = c.pending
  /\ ioLog' = c.ioLog
  /\ saves' = c.saves
  /\ exits' = c.exits
  /\ lastEvent' = c.lastEvent

\* Editor(): the signals after construction; onMount's checkReadOnly has
\* resolved unless it has to read the file's content
Mounted(file, content, embedded) ==
  LET created == createEditorState(content, file.id)
      check == checkReadOnly(file)
      probing == file # NoFile /\ ProbeReadsContent(file)
  IN /\ props = [embedded |-> embedded, file |-> file]
     /\ mountCheck = IF probing THEN "pending" ELSE "done"
     /\ editorState = IF file # NoFile /\ ~probing /\ check.isReadOnly
                       THEN [created EXCEPT !.isReadOnly = TRUE,
                                            !.isReadOnlyReason = check.reason]
                       ELSE created
     /\ undoState = createUndoState
     /\ clipboardState = createClipboardState
     /\ lastKey = Null
     /\ commandState = createCommandState
     /\ saveState = createSaveState
     /\ quitState = createQuitState
     /\ pending = {}
     /\ disk = IF file = NoFile THEN NoContent ELSE [exists |-> TRUE, content |-> content]
     /\ backup = NoContent
     /\ ioLog = << >>
     /\ saves = 0
     /\ exits = 0
     /\ pushCount = 0
     /\ CanvasIdle
     /\ lastEvent = Ev("init", "")

\* onMount: checkReadOnly resolves after reading the file
MountDone ==
  /\ mountCheck = "pending"
  /\ mountCheck' = "done"
  /\ LET check == checkReadOnly(props.file)
     IN editorState' = IF check.isReadOnly
                       THEN [editorState EXCEPT !.isReadOnly = TRUE,
                                                !.isReadOnlyReason = check.reason]
                       ELSE editorState
  /\ lastEvent' = Ev("mount", "")
  /\ UNCHANGED << undoState, clipboardState, lastKey, commandState, saveState, quitState,
                  props, pending, disk, backup, ioLog, saves, exits, pushCount,
                  canvasVars >>

\* key events are delivered until the session has exited
SessionOpen == exits = 0

\* one key event handled by the useKeyboard callback
KeyEvent(key) ==
  /\ SessionOpen
  /\ LET c == HandleKey(Cur, key)
     IN WithinBounds(c) /\ Assign(c)
  /\ UNCHANGED << props, mountCheck, disk, backup, pushCount, canvasVars >>

\* createBackup resolves for the suspended save p; on success performSave
\* goes on to saveFile, on failure the awaiting handler resumes
BackupDone(p, ok) ==
  /\ p.stage = "backup"
  /\ backup' = IF ok /\ disk.exists THEN disk ELSE backup
  /\ LET next == performSaveAfterBackup(ok)
         c == [Cur EXCEPT !.pending = pending \ {p},
                          !.ioLog = Append(ioLog, IoCall(p.id, "backup", ok))]
     IN IF next.write
        THEN Assign([c EXCEPT
                       !.pending = c.pending \cup {[p EXCEPT !.stage = "write"]},
                       !.ioLog = Append(c.ioLog, IoCall(p.id, "write_issued", TRUE)),
                       !.lastEvent = Ev("backup_ok", "")])
        ELSE Assign(SaveResolved([c EXCEPT
                                    !.ioLog = Append(c.ioLog, IoCall(p.id, "result", FALSE))],
                                 p.origin, p.state, FALSE, next.error))
  /\ UNCHANGED << props, mountCheck, disk, pushCount, canvasVars >>

\* saveFile resolves for the suspended save p and the awaiting handler resumes
WriteDone(p, ok) ==
  /\ p.stage = "write"
  /\ disk' = IF ok THEN [exists |-> TRUE, content |-> p.content] ELSE disk
  /\ LET result == performSaveAfterWrite(ok)
         c == [Cur EXCEPT !.pending = pending \ {p},
                          !.ioLog = ioLog \o << IoCall(p.id, "write", ok),
                                                IoCall(p.id, "result", result.success) >>]
     IN Assign(SaveResolved(c, p.origin, p.state, result.success, result.error))
  /\ UNCHANGED << props, mountCheck, backup, pushCount, canvasVars >>

\* no overlay is active: the key reaches the dispatch on the base mode
BaseDispatch ==
  /\ ~quitState.shouldQuit
  /\ quitState.promptState # "confirming"
  /\ saveState.promptState # "confirming"
  /\ commandState.mode # "active"

\* in insert mode only the characters of chars are typed into the buffer
TypesOnly(key, chars) ==
  (BaseDispatch /\ editorState.mode = "insert" /\ getPrintableChar(key.sequence) # Null)
    => key.sequence \in chars

\* --- the editing specification: every editor operation on an in-memory
\* buffer, no overlays
EditContents ==
  { << >>, << "a" >>, << "a", "\n", " ", "a" >>, << " ", "a", "\n" >>,
    << ",", "a", "\n", "a" >>, << "a", ",", "\n", " " >> }

EditKeys ==
  {Key(c, c, FALSE) : c \in {"h", "l", "j", "k", "w", "b", "i", "a", "o", "x", "u",
                             "y", "d", "p", "g"}}
    \cup ShiftedKeys
    \cup {Key("0", "0", FALSE), Key("$", "$", FALSE), Key("space", " ", FALSE)}
    \cup (ControlKeys \ {Key("s", "^S", TRUE)})

InitEdit == \E content \in EditContents : Mounted(NoFile, content, FALSE)

\* escape is pressed in insert mode only, so that no overlay opens; the text
\* typed is made of "a" and " "
NextEdit ==
  \E key \in EditKeys :
    /\ key.name = "escape" => editorState.mode = "insert"
    /\ TypesOnly(key, {"a", " "})
    /\ KeyEvent(key)

SpecEdit == InitEdit /\ [][NextEdit]_vars

\* --- the session specification: overlays, commands, saves and quitting,
\* with a few editing keys
SessionFiles == {NoFile, PlainFile, LargeFile, BinaryFile}

SessionContents == { << "a" >> }

SessionKeys ==
  {Key(c, c, FALSE) : c \in {"i", "a", "x", "u", "w", "q", "y", "n", "c"}}
    \cup {Key(":", ":", FALSE), Key("!", "!", FALSE)}
    \cup {Key("escape", "ESC", FALSE), Key("return", "CR", FALSE),
          Key("backspace", "BS", FALSE), Key("s", "^S", TRUE)}

InitSession ==
  \E file \in SessionFiles, content \in SessionContents : Mounted(file, content, FALSE)

\* return is pressed at the command line only: the buffer keeps one line
NextSession ==
  \/ \E key \in SessionKeys :
       /\ TypesOnly(key, {"a"})
       /\ key.name = "return" => commandState.mode = "active"
       /\ KeyEvent(key)
  \/ MountDone
  \/ \E p \in pending, ok \in BOOLEAN : BackupDone(p, ok)
  \/ \E p \in pending, ok \in BOOLEAN : WriteDone(p, ok)

SpecSession == InitSession /\ [][NextSession]_vars

\* --- the read-only specification: a file the classifier reports read-only,
\* every key of the editor, no key before onMount has set isReadOnly; no save
\* is ever in flight, performSave refuses a read-only buffer before its awaits
ReadOnlyFiles == {ModuleFile, GitFile, LargeFile, BinaryFile}

ReadOnlyKeys == EditKeys \cup SessionKeys

InitReadOnly ==
  \E file \in ReadOnlyFiles, content \in EditContents : Mounted(file, content, FALSE)

NextReadOnly ==
  \/ \E key \in ReadOnlyKeys : mountCheck = "done" /\ KeyEvent(key)
  \/ MountDone

SpecReadOnly == InitReadOnly /\ [][NextReadOnly]_vars

\* --- the quit specification: quit requests, the quit prompt, :q, :q!, :wq
\* and the saves they start, on a file edited by x, stand-alone or embedded
QuitKeys ==
  {Key(c, c, FALSE) : c \in {"x", "q", "w", "y", "n", "c"}}
    \cup {Key(":", ":", FALSE), Key("!", "!", FALSE),
          Key("escape", "ESC", FALSE), Key("return", "CR", FALSE)}

InitQuit == \E embedded \in BOOLEAN : Mounted(PlainFile, << "a" >>, embedded)

NextQuit ==
  \/ \E key \in QuitKeys : KeyEvent(key)
  \/ MountDone
  \/ \E p \in pending, ok \in BOOLEAN : BackupDone(p, ok)
  \/ \E p \in pending, ok \in BOOLEAN : WriteDone(p, ok)

SpecQuit == InitQuit /\ [][NextQuit]_vars

\* --- the undo-log specification: pushUndoOperation, performUndo and
\* performRedo on a log that starts empty; the n-th operation pushed moves
\* the cursor from column n-1 to column n
LogState(n) == [createEditorState(<< >>, Null) EXCEPT !.cursorCol = n]

LogOp(n) == createUndoOperation("insert_char", LogState(n - 1), LogState(n))

LogFrame ==
  UNCHANGED << clipboardState, lastKey, commandState, saveState, quitState, props,
               mountCheck, pending, disk, backup, ioLog, saves, exits,
               canvasVars >>

\* a fresh edit is pushed when nothing is left to redo
LogPush ==
  /\ pushCount < MaxPushes
  /\ undoState.redoStack = << >>
  /\ pushCount' = pushCount + 1
  /\ undoState' = pushUndoOperation(undoState, LogOp(pushCount + 1))
  /\ editorState' = LogState(pushCount + 1)
  /\ lastEvent' = Ev("push", "")
  /\ LogFrame

LogUndo ==
  /\ LET result == performUndo(editorState, undoState)
     IN editorState' = result.editorState /\ undoState' = result.undoState
  /\ lastEvent' = Ev("undo", "")
  /\ UNCHANGED pushCount
  /\ LogFrame

LogRedo ==
  /\ LET result == performRedo(editorState, undoState)
     IN editorState' = result.editorState /\ undoState' = result.undoState
  /\ lastEvent' = Ev("redo", "")
  /\ UNCHANGED pushCount
  /\ LogFrame

InitLog == Mounted(NoFile, << >>, FALSE)

NextLog == LogPush \/ LogUndo \/ LogRedo

SpecLog == InitLog /\ [][NextLog]_vars

\* the undo log under all four of its operations, in any order: an edit is
\* pushed also while entries wait on the redo stack, and a save clears both
StackPush ==
  /\ undoState' = pushUndoOperation(undoState, LogOp(1))
  /\ editorState' = LogState(1)
  /\ lastEvent' = Ev("push", "")
  /\ UNCHANGED pushCount
  /\ LogFrame

StackClear ==
  /\ undoState' = clearUndoStack(undoState)
  /\ lastEvent' = Ev("clear", "")
  /\ UNCHANGED << editorState, pushCount >>
  /\ LogFrame

NextStacks == StackPush \/ LogUndo \/ LogRedo \/ StackClear

SpecStacks == InitLog /\ [][NextStacks]_vars

\* --- the function specification: each exported state-transition function
\* applied once to every state within the bounds
LinesUpTo(n) == UNION {[1..k -> Alphabet] : k \in 0..n}

Buffers(maxLines, maxLineLen) ==
  UNION {[1..k -> LinesUpTo(maxLineLen)] : k \in 1..maxLines}

\* the states that satisfy the cursor invariant of their mode
FnCursors(lines) ==
  UNION {
    {[cursorLine |-> line, cursorCol |-> col, mode |-> mode] :
       col \in 0..getMaxCol(lines[line + 1], mode)} :
    line \in 0..(Len(lines) - 1), mode \in {"normal", "insert"}
  }

FnStates(maxLines, maxLineLen) ==
  UNION {
    {[mode |-> cursor.mode, lines |-> lines, cursorLine |-> cursor.cursorLine,
      cursorCol |-> cursor.cursorCol, isDirty |-> FALSE, dirtyLines |-> {},
      filePath |-> "/w/f.txt", isReadOnly |-> ro,
      isReadOnlyReason |-> IF ro THEN "file_too_large" ELSE Null] :
       cursor \in FnCursors(lines), ro \in BOOLEAN} :
    lines \in Buffers(maxLines, maxLineLen)
  }

FnClipboards ==
  {createClipboardState,
   [content |-> [type |-> "line", lines |-> << << "a" >> >>]],
   [content |-> [type |-> "line", lines |-> << << >>, << "a", "," >> >>]]}

InitFn ==
  /\ editorState \in FnStates(MaxLines, MaxLineLen)
  /\ clipboardState \in FnClipboards
  /\ undoState = createUndoState
  /\ lastKey = Null
  /\ commandState = createCommandState
  /\ saveState = createSaveState
  /\ quitState = createQuitState
  /\ props = [embedded |-> FALSE, file |-> PlainFile]
  /\ mountCheck = "done"
  /\ pending = {}
  /\ disk = NoContent
  /\ backup = NoContent
  /\ ioLog = << >>
  /\ saves = 0
  /\ exits = 0
  /\ pushCount = 0
  /\ CanvasIdle
  /\ lastEvent = Ev("init", "")

\* the function `name` is applied to the drawn state
FnApply(name, newEditorState, newClipboardState) ==
  /\ lastEvent = Ev("init", "")
  /\ editorState' = newEditorState
  /\ clipboardState' = newClipboardState
  /\ lastEvent' = Ev(name, "")
  /\ UNCHANGED << undoState, lastKey, commandState, saveState, quitState, props,
                  mountCheck, pending, disk, backup, ioLog, saves, exits, pushCount,
                  canvasVars >>

FnMove ==
  \/ FnApply("moveLeft", moveLeft(editorState), clipboardState)
  \/ FnApply("moveRight", moveRight(editorState), clipboardState)
  \/ FnApply("moveUp", moveUp(editorState), clipboardState)
  \/ FnApply("moveDown", moveDown(editorState), clipboardState)
  \/ FnApply("moveToLineStart", moveToLineStart(editorState), clipboardState)
  \/ FnApply("moveToLineEnd", moveToLineEnd(editorState), clipboardState)
  \/ FnApply("moveToFirstLine", moveToFirstLine(editorState), clipboardState)
  \/ FnApply("moveToLastLine", moveToLastLine(editorState), clipboardState)
  \/ FnApply("moveToNextWord", moveToNextWord(editorState), clipboardState)
  \/ FnApply("moveToPreviousWord", moveToPreviousWord(editorState), clipboardState)

FnMode ==
  \/ FnApply("enterInsertMode", enterInsertMode(editorState), clipboardState)
  \/ FnApply("enterInsertModeAfter", enterInsertModeAfter(editorState), clipboardState)
  \/ FnApply("enterInsertModeAtEnd", enterInsertModeAtEnd(editorState), clipboardState)
  \/ FnApply("enterInsertModeAtStart", enterInsertModeAtStart(editorState), clipboardState)
  \/ FnApply("exitInsertMode", exitInsertMode(editorState), clipboardState)

FnMutate ==
  \/ \E char \in Alphabet :
       FnApply("insertChar", insertChar(editorState, char), clipboardState)
  \/ FnApply("deleteCharBefore", deleteCharBefore(editorState), clipboardState)
  \/ FnApply("insertNewLine", insertNewLine(editorState), clipboardState)
  \/ FnApply("deleteCharUnderCursor", deleteCharUnderCursor(editorState), clipboardState)
  \/ FnApply("openLineBelow", openLineBelow(editorState), clipboardState)
  \/ FnApply("openLineAbove", openLineAbove(editorState), clipboardState)

FnClipboard ==
  \/ FnApply("yankLine", editorState, yankLine(editorState, clipboardState))
  \/ LET result == deleteLine(editorState, clipboardState)
     IN FnApply("deleteLine", result.editorState, result.clipboardState)
  \/ FnApply("pasteAfter", pasteAfter(editorState, clipboardState), clipboardState)
  \/ FnApply("pasteBefore", pasteBefore(editorState, clipboardState), clipboardState)

NextFn == FnMove \/ FnMode \/ FnMutate \/ FnClipboard

SpecFn == InitFn /\ [][NextFn]_vars

\* --- the command specification: parseCommand applied once to every command
\* line within the bounds, as handed over by executeCommand
CmdChars == {":", "w", "q", "x", "!", " ", "\t"}

CmdLines(maxLen) == UNION {[1..k -> CmdChars] : k \in 0..maxLen}

\* everything but editorState, commandState, props, mountCheck and lastEvent,
\* as constructed by the Editor component
Idle ==
  /\ undoState = createUndoState
  /\ clipboardState = createClipboardState
  /\ lastKey = Null
  /\ saveState = createSaveState
  /\ quitState = createQuitState
  /\ pending = {}
  /\ disk = NoContent
  /\ backup = NoContent
  /\ ioLog = << >>
  /\ saves = 0
  /\ exits = 0
  /\ pushCount = 0
  /\ CanvasIdle

InitCommand ==
  /\ commandState \in {[mode |-> "active", buffer |-> line] : line \in CmdLines(MaxCmdLen)}
  /\ editorState = createEditorState(<< >>, Null)
  /\ props = [embedded |-> FALSE, file |-> NoFile]
  /\ lastEvent = Ev("init", "")
  /\ mountCheck = "done"
  /\ Idle

\* const { command } = executeCommand(state); parseCommand(command)
NextCommand ==
  /\ lastEvent = Ev("init", "")
  /\ LET exec == executeCommand(commandState)
     IN /\ commandState' = exec.state
        /\ lastEvent' = [tag |-> "parseCommand", info |-> "", command |-> exec.command,
                         result |-> parseCommand(exec.command)]
  /\ UNCHANGED << editorState, undoState, clipboardState, lastKey, saveState, quitState,
                  props, mountCheck, pending, disk, backup, ioLog, saves, exits,
                  pushCount, canvasVars >>

SpecCommand == InitCommand /\ [][NextCommand]_vars

\* --- the word-motion specification: on a one-line buffer in normal mode,
\* cursor at column 0, moveToNextWord is applied up to MaxWordMoves times and
\* then moveToPreviousWord at most as many times
WordStep(name, forward, back) ==
  [tag |-> name, info |-> "", forward |-> forward, back |-> back]

InitWords ==
  /\ editorState \in {createEditorState(line, Null) : line \in LinesUpTo(MaxWordLineLen)}
  /\ commandState = createCommandState
  /\ props = [embedded |-> FALSE, file |-> NoFile]
  /\ lastEvent = WordStep("init", 0, 0)
  /\ mountCheck = "done"
  /\ Idle

WordForward ==
  /\ lastEvent.back = 0
  /\ lastEvent.forward < MaxWordMoves
  /\ editorState' = moveToNextWord(editorState)
  /\ lastEvent' = WordStep("moveToNextWord", lastEvent.forward + 1, 0)
  /\ UNCHANGED << undoState, clipboardState, lastKey, commandState, saveState, quitState,
                  props, mountCheck, pending, disk, backup, ioLog, saves, exits,
                  pushCount, canvasVars >>

WordBack ==
  /\ lastEvent.back < lastEvent.forward
  /\ editorState' = moveToPreviousWord(editorState)
  /\ lastEvent' = WordStep("moveToPreviousWord", lastEvent.forward, lastEvent.back + 1)
  /\ UNCHANGED << undoState, clipboardState, lastKey, commandState, saveState, quitState,
                  props, mountCheck, pending, disk, backup, ioLog, saves, exits,
                  pushCount, canvasVars >>

NextWords == WordForward \/ WordBack

SpecWords == InitWords /\ [][NextWords]_vars

\* --- the classifier specification: onMount's checkReadOnly on every file
\* within the bounds; each of the two probes may fail on its own
PathSegments == {"", "w", "node_modules", ".git"}

ProbePaths(maxLen) == UNION {[1..k -> PathSegments] : k \in 2..maxLen}

ProbeSizes ==
  {0, 5, BINARY_CHECK_BYTES, BINARY_CHECK_BYTES + 1, MAX_FILE_SIZE_BYTES,
   MAX_FILE_SIZE_BYTES + 1}

ProbeNulOffsets == {-1, 0, BINARY_CHECK_BYTES - 1, BINARY_CHECK_BYTES}

ProbeFiles(maxLen) ==
  {File("/probed", path, content[1], content[2], sizeError, readError) :
     path \in ProbePaths(maxLen),
     content \in {c \in ProbeSizes \X ProbeNulOffsets : c[2] < c[1]},
     sizeError \in BOOLEAN,
     readError \in BOOLEAN}

InitProbe ==
  /\ \E file \in ProbeFiles(MaxPathLen) :
       /\ props = [embedded |-> FALSE, file |-> file]
       /\ editorState = createEditorState(<< "a" >>, file.id)
  /\ commandState = createCommandState
  /\ mountCheck = "pending"
  /\ lastEvent = Ev("init", "")
  /\ Idle

NextProbe == MountDone

SpecProbe == InitProbe /\ [][NextProbe]_vars

\* ============================================================== properties
Top(stack) == stack[Len(stack)]

SameText(a, b) ==
  a.lines = b.lines /\ a.cursorLine = b.cursorLine /\ a.cursorCol = b.cursorCol

\* C1 (SpecEdit): after every sequence of editor operations on a buffer built
\* by createEditorState the buffer has at least one line, and the dd that
\* deleted the only line of the buffer has left exactly one empty line.
C1_BufferNeverEmpty ==
  /\ Len(editorState.lines) >= 1
  /\ ( /\ lastEvent.tag = "push"
       /\ Top(undoState.undoStack).type = "delete_line"
       /\ Len(Top(undoState.undoStack).beforeLines) = 1 )
     => editorState.lines = << << >> >>

\* C1 witness: dd has just deleted the only, non-empty, line of the buffer
C1_OnlyLineDeleted ==
  /\ lastEvent.tag = "push"
  /\ Top(undoState.undoStack).type = "delete_line"
  /\ Len(Top(undoState.undoStack).beforeLines) = 1
  /\ Top(undoState.undoStack).beforeLines[1] # << >>
  /\ clipboardState.content.lines = Top(undoState.undoStack).beforeLines
  /\ editorState.lines = << << >> >>

\* C2 (SpecEdit): in every reachable state 0 <= cursorLine < len(lines) and
\* 0 <= cursorCol, with cursorCol <= len(current line) in insert mode and
\* cursorCol <= max(0, len(current line) - 1) in normal mode.
C2_CursorInvariant ==
  /\ 0 <= editorState.cursorLine
  /\ editorState.cursorLine < Len(editorState.lines)
  /\ 0 <= editorState.cursorCol
  /\ editorState.mode = "insert"
       => editorState.cursorCol <= Len(getCurrentLine(editorState))
  /\ editorState.mode = "normal"
       => editorState.cursorCol <= Max(0, Len(getCurrentLine(editorState)) - 1)

\* C3 (SpecEdit): when a key event takes state S to S' and pushes its
\* operation on the undo log, performUndo applied to S' yields the lines,
\* cursorLine and cursorCol of S.
C3_UndoRestoresBefore ==
  [][lastEvent'.tag = "push"
       => SameText(performUndo(editorState', undoState').editorState, editorState)]_vars

\* C3 witness: u has just undone an operation that changed the buffer
C3_BufferEditUndone ==
  /\ lastEvent.tag = "undo"
  /\ canRedo(undoState)
  /\ Top(undoState.redoStack).beforeLines # Top(undoState.redoStack).afterLines
  /\ editorState.lines = Top(undoState.redoStack).afterLines

\* C4 (SpecEdit): once the mutation S -> S' just pushed has been undone by
\* performUndo, an immediately following performRedo yields the lines,
\* cursorLine and cursorCol of S'.
C4_RedoRestoresAfter ==
  lastEvent.tag = "push"
    => LET undone == performUndo(editorState, undoState)
           redone == performRedo(undone.editorState, undone.undoState)
       IN SameText(redone.editorState, editorState)

\* C5 (SpecEdit): after a key event that pushes a new operation onto the
\* undo log the redo stack is empty, even if it was not before that edit.
C5_PushClearsRedo == lastEvent.tag = "push" => undoState.redoStack = << >>

\* C5 witness: an operation has been pushed while the redo stack held one
C5_PushedOverRedo ==
  lastEvent = Ev("push", "redo_dropped") /\ Len(undoState.undoStack) > 0

\* C6 (SpecLog): the undo stack never holds more than 100 entries, and after
\* n consecutive pushes it holds exactly the last min(n, 100) operations
\* pushed, oldest first: the push onto a full stack drops the bottom entry.
C6_UndoStackCapped ==
  /\ Len(undoState.undoStack) <= MAX_UNDO_STACK_SIZE
  /\ undoState.redoStack = << >>
       => LET kept == Min(pushCount, MAX_UNDO_STACK_SIZE)
          IN undoState.undoStack = [i \in 1..kept |-> LogOp(pushCount - kept + i)]

\* C6 witness: the 101st operation has just been pushed
C6_OldestEvicted ==
  /\ lastEvent.tag = "push"
  /\ pushCount = MAX_UNDO_STACK_SIZE + 1
  /\ Len(undoState.undoStack) = MAX_UNDO_STACK_SIZE
  /\ undoState.undoStack[1] = LogOp(2)
  /\ Top(undoState.undoStack) = LogOp(MAX_UNDO_STACK_SIZE + 1)

MutationFunctions ==
  {"insertChar", "deleteCharBefore", "insertNewLine", "deleteCharUnderCursor",
   "openLineBelow", "openLineAbove", "deleteLine", "pasteAfter", "pasteBefore"}

\* C7 (SpecFn): applied to a state with isReadOnly = true, each of the nine
\* mutation functions returns the state unchanged in all fields, and
\* deleteLine returns the clipboard unchanged as well.
C7_ReadOnlyNoOp ==
  [][(editorState.isReadOnly /\ lastEvent'.tag \in MutationFunctions)
       => /\ editorState' = editorState
          /\ lastEvent'.tag = "deleteLine" => clipboardState' = clipboardState]_vars

\* C7 witness: deleteLine has been applied to a read-only two-line buffer
\* while the clipboard was empty
C7_ReadOnlyDeleteLine ==
  /\ lastEvent.tag = "deleteLine"
  /\ editorState.isReadOnly
  /\ Len(editorState.lines) = 2
  /\ clipboardState = createClipboardState

\* C8 (SpecSession): when a save has succeeded (y at the save prompt, :wq or
\* :x, y at the quit prompt) the state has isDirty = false, no dirty line and
\* empty undo and redo stacks.
C8_SaveClearsHistory ==
  lastEvent.tag = "save_ok"
    => /\ ~editorState.isDirty
       /\ editorState.dirtyLines = {}
       /\ undoState.undoStack = << >>
       /\ undoState.redoStack = << >>

\* C8 witness: the save of an edited buffer started by y at the quit prompt
\* has succeeded
C8_QuitSaveSucceeded ==
  /\ lastEvent = Ev("save_ok", "quit")
  /\ disk = [exists |-> TRUE, content |-> getEditorContent(editorState)]
  /\ disk.content # << "a" >>

SaveErrors ==
  {"No file path specified", "File is read-only", "Failed to create backup",
   "Failed to save file"}

\* C9 (SpecSession): when a save fails, performSave returns one of its four
\* errors as a value, and the step that handles the failure leaves the editor
\* state (lines, cursor, isDirty, dirty lines) and the undo and redo stacks as
\* they were and does not terminate the session.
C9_FailedSaveChangesNothing ==
  [][lastEvent'.tag = "save_fail"
       => /\ lastEvent'.info \in SaveErrors
          /\ editorState' = editorState
          /\ undoState' = undoState
          /\ exits' = exits]_vars

\* C9 witness: the write of a save started by y at the quit prompt has
\* failed on an edited buffer with an operation to undo
C9_QuitSaveFailed ==
  /\ lastEvent = Ev("save_fail", "Failed to save file")
  /\ quitState = createQuitState
  /\ editorState.isDirty
  /\ canUndo(undoState)
  /\ exits = 0

IsWrite(entry) == entry.call \in {"write_issued", "write"}

\* C10 (SpecSession): within one save the write to the original path is
\* issued only after the backup step has succeeded; when the backup step
\* fails no write is issued for that save and its result is a failure.
C10_BackupBeforeWrite ==
  \A i \in DOMAIN ioLog :
    /\ IsWrite(ioLog[i])
         => \E j \in 1..(i - 1) : ioLog[j] = IoCall(ioLog[i].save, "backup", TRUE)
    /\ ioLog[i] = IoCall(ioLog[i].save, "backup", FALSE)
         => /\ \A j \in DOMAIN ioLog : ioLog[j].save = ioLog[i].save => ~IsWrite(ioLog[j])
            /\ \E j \in (i + 1)..Len(ioLog) :
                 ioLog[j] = IoCall(ioLog[i].save, "result", FALSE)

\* C10 witness: a save has written the file after its backup succeeded
C10_WrittenAfterBackup ==
  /\ Len(ioLog) >= 3
  /\ ioLog[1] = IoCall(1, "backup", TRUE)
  /\ ioLog[2] = IoCall(1, "write_issued", TRUE)
  /\ ioLog[3] = IoCall(1, "write", TRUE)
  /\ backup = [exists |-> TRUE, content |-> << "a" >>]

\* C11 (SpecSession): onExit is invoked at most once per session, whatever
\* key events and save completions arrive during the quit flow.
C11_ExitAtMostOnce == exits <= 1

\* C12 (SpecSession): while a save is in flight no key event changes lines,
\* cursor, mode or isDirty (the state is still the one performSave was
\* called with), and the state marked as saved has the content written.
C12_NoInputDuringSave ==
  /\ \A p \in pending :
       /\ SameText(editorState, p.state)
       /\ editorState.mode = p.state.mode
       /\ editorState.isDirty = p.state.isDirty
  /\ lastEvent.tag = "save_ok" => disk.content = getEditorContent(editorState)

\* C13 (SpecSession): for a file the classifier reports as read-only the
\* lines of the buffer are those of the content loaded, in every state,
\* whether key events arrive before or after the probe of onMount completes.
C13_ReadOnlyBufferIntact ==
  (props.file # NoFile /\ checkReadOnly(props.file).isReadOnly)
    => \E content \in SessionContents :
         editorState.lines = createEditorState(content, props.file.id).lines

\* the key is a quit request: Escape or, when embedded, q in normal mode,
\* or Return on the command line :q
QuitRequested(key) ==
  /\ ~quitState.shouldQuit
  /\ quitState.promptState # "confirming"
  /\ saveState.promptState # "confirming"
  /\ IF commandState.mode = "active"
     THEN key.name = "return" /\ parseCommand(commandState.buffer).type = "quit"
     ELSE /\ editorState.mode = "normal"
          /\ key.name = "escape" \/ (key.name = "q" /\ props.embedded)

\* C14 (SpecQuit): onExit is never invoked while isDirty is true unless the
\* decision was n at the quit prompt or :q!, and a quit request (:q, Escape,
\* the quit key q of an embedded editor) on a dirty buffer opens the quit
\* prompt instead of terminating.
C14_NoExitWhileDirty ==
  [][/\ exits' > exits
          => \/ ~editorState'.isDirty
             \/ quitState'.quitAction = "quit_without_save"
     /\ \A key \in QuitKeys :
          (QuitRequested(key) /\ editorState.isDirty /\ KeyEvent(key))
            => /\ quitState'.promptState = "confirming"
               /\ exits' = exits]_vars

\* C14 witness: the quit key of an embedded editor has opened the quit
\* prompt on a dirty buffer
C14_QuitPromptOnDirty ==
  /\ props.embedded
  /\ editorState.isDirty
  /\ quitState = startQuitConfirmation(createQuitState)
  /\ commandState = createCommandState
  /\ pending = {}
  /\ exits = 0

\* the persistence layer is left alone by a step: no save is started, no
\* backup or write call is made, the file and its backup keep their content
PersistenceUntouched ==
  /\ ioLog' = ioLog
  /\ pending' = pending
  /\ saves' = saves
  /\ disk' = disk
  /\ backup' = backup

\* C15 (SpecSession): at the quit prompt, n ends the session at once without
\* starting a save, a backup or a write, whatever the buffer holds; c and
\* Escape close the prompt and leave the editor in normal mode with the buffer
\* as it was, without ending the session and without saving.
C15_PromptReplies ==
  [][\A key \in SessionKeys :
       (quitState.promptState = "confirming" /\ KeyEvent(key))
         => /\ key.name = "n"
                 => /\ exits' = exits + 1
                    /\ editorState' = editorState
                    /\ PersistenceUntouched
            /\ key.name \in {"c", "escape"}
                 => /\ quitState' = createQuitState
                    /\ commandState'.mode = "none"
                    /\ editorState' = editorState
                    /\ editorState'.mode = "normal"
                    /\ exits' = exits
                    /\ PersistenceUntouched]_vars

\* C15 witness: n was answered at the quit prompt of a modified buffer; the
\* session has ended and nothing was backed up or written.
C15_DeclinedAtPrompt ==
  /\ lastEvent = Ev("exit", "quit_prompt")
  /\ quitState.quitAction = "quit_without_save"
  /\ editorState.isDirty
  /\ exits = 1
  /\ ioLog = << >>

\* C16 (SpecReadOnly): once isReadOnly is set before the first key event, no
\* later step (key event or save completion) leaves normal mode, changes
\* lines or clears isReadOnly.
C16_ReadOnlyStaysNormal ==
  [][editorState.isReadOnly
       => /\ editorState'.isReadOnly
          /\ editorState'.mode = "normal"
          /\ editorState'.lines = editorState.lines]_vars

\* C16 witness: a key that edits or enters insert mode was refused on a file
\* found binary by the probe, after the cursor had moved off the first line.
C16_EditRefused ==
  /\ props.file = BinaryFile
  /\ lastEvent = Ev("read_only", "binary_file")
  /\ editorState.cursorLine > 0
  /\ editorState.mode = "normal"

\* the command line without the whitespace around it
Stripped(str) ==
  LET n == Len(str)
      inked == {k \in 1..n : str[k] \notin {" ", "\t"}}
  IN IF inked = {} THEN << >>
     ELSE SubSeq(str, CHOOSE k \in inked : \A m \in inked : k <= m,
                      CHOOSE k \in inked : \A m \in inked : k >= m)

\* C17 (SpecCommand): parseCommand looks at the command line without its
\* surrounding whitespace: ":w" is save, ":q" is quit, ":wq" and ":x" are
\* save_quit, ":q!" is force_quit, and every other line is unknown and
\* carries the stripped line.
C17_CommandIntents ==
  lastEvent.tag = "parseCommand"
    => LET core == Stripped(lastEvent.command)
           result == lastEvent.result
       IN /\ result.type = "save" <=> core = << ":", "w" >>
          /\ result.type = "quit" <=> core = << ":", "q" >>
          /\ result.type = "save_quit"
               <=> core \in {<< ":", "w", "q" >>, << ":", "x" >>}
          /\ result.type = "force_quit" <=> core = << ":", "q", "!" >>
          /\ result.type = "unknown"
               <=> core \notin {<< ":", "w" >>, << ":", "q" >>, << ":", "w", "q" >>,
                                << ":", "x" >>, << ":", "q", "!" >>}
          /\ result.type = "unknown" => result.command = core

\* C17 witness: ":wq" typed between a tab and a blank was parsed as save_quit.
C17_PaddedSaveQuit ==
  /\ lastEvent.tag = "parseCommand"
  /\ lastEvent.command = << "\t", ":", "w", "q", " " >>
  /\ lastEvent.result.type = "save_quit"

\* C18 (SpecWords): on a one-line buffer in normal mode with the cursor at
\* column 0, n applications of moveToNextWord followed by n applications of
\* moveToPreviousWord leave the cursor at column 0 of the line, and the line
\* as it was, for every n from 0 to MaxWordMoves.
C18_WordRoundTrip ==
  lastEvent.back = lastEvent.forward
    => /\ editorState.cursorCol = 0
       /\ editorState.cursorLine = 0
       /\ editorState.mode = "normal"

\* C18 witness: three motions forward and three back on "a, a a".
C18_ThreeWordsAndBack ==
  /\ lastEvent = WordStep("moveToPreviousWord", 3, 3)
  /\ editorState.lines = << << "a", ",", " ", "a", " ", "a" >> >>
  /\ editorState.cursorCol = 0

\* the file lies in the directory dir: dir is a segment of its path other
\* than the file name
InDirectory(path, dir) == \E i \in 1..(Len(path) - 1) : path[i] = dir

\* the classification by the four rules in their order
FirstMatchingRule(file) ==
  IF InDirectory(file.path, "node_modules") THEN "node_modules"
  ELSE IF InDirectory(file.path, ".git") THEN "git_directory"
  ELSE IF file.size > 1048576 THEN "file_too_large"
  ELSE IF file.nulAt >= 0 /\ file.nulAt < 8192 THEN "binary_file"
  ELSE Null

\* what onMount has stored of checkReadOnly's result
Classified == lastEvent.tag = "mount"

ProbesSucceeded == ~props.file.sizeError /\ ~props.file.readError

\* C19 (SpecProbe), as claimed: when both probes succeed, checkReadOnly gives
\* the reason of the first rule that matches, in the order node_modules
\* segment, .git segment, size above 1 MiB, NUL byte in the first 8 KiB, and
\* is read-only exactly when a reason is given.
C19_FirstMatchingRuleWins ==
  (Classified /\ ProbesSucceeded)
    => /\ editorState.isReadOnlyReason = FirstMatchingRule(props.file)
       /\ editorState.isReadOnly <=> editorState.isReadOnlyReason # Null

\* C19, for paths with a separator before the directory name: there the
\* result is the first matching rule.
C19_AnchoredPathsClassified ==
  (Classified /\ ProbesSucceeded /\ props.file.path[1] \notin {"node_modules", ".git"})
    => /\ editorState.isReadOnlyReason = FirstMatchingRule(props.file)
       /\ editorState.isReadOnly <=> editorState.isReadOnlyReason # Null

\* a probe that checkReadOnly performed on the file has raised an I/O error:
\* the size probe is always performed once the directory rules have not
\* matched, the content probe unless the size rule has matched
ProbeFailed(file) ==
  \/ file.sizeError
  \/ file.readError /\ file.size <= 1048576

\* C20 (SpecProbe), as claimed: when the path matches neither directory rule
\* and a probe of the file's size or content fails with an I/O error,
\* checkReadOnly reports the file not read-only, with no reason.
C20_ProbeFailureFailsOpen ==
  ( /\ Classified
    /\ ~isInNodeModules(props.file.path)
    /\ ~isInGitDirectory(props.file.path)
    /\ ProbeFailed(props.file) )
    => /\ ~editorState.isReadOnly
       /\ editorState.isReadOnlyReason = Null

\* C20, when the content probe fails, alone or together with the size probe:
\* there the file is reported not read-only, with no reason.
C20_ContentFailureFailsOpen ==
  ( /\ Classified
    /\ ~isInNodeModules(props.file.path)
    /\ ~isInGitDirectory(props.file.path)
    /\ ProbeFailed(props.file)
    /\ props.file.readError )
    => /\ ~editorState.isReadOnly
       /\ editorState.isReadOnlyReason = Null

\* Return at the command line executes :wq or :x
SaveQuitExecuted(key) ==
  /\ ~quitState.shouldQuit
  /\ quitState.promptState # "confirming"
  /\ saveState.promptState # "confirming"
  /\ commandState.mode = "active"
  /\ key.name = "return"
  /\ parseCommand(commandState.buffer).type = "save_quit"

\* the save started by :wq or :x resolves: it ends the session exactly when
\* it succeeded, and then the file holds the content handed to saveFile
SaveQuitResolves ==
  \A p \in pending, ok \in BOOLEAN :
    (p.origin = "wq" /\ (BackupDone(p, ok) \/ WriteDone(p, ok)))
      => /\ exits' > exits <=> lastEvent' = Ev("save_ok", "wq")
         /\ lastEvent' = Ev("save_ok", "wq")
              => disk' = [exists |-> TRUE, content |-> p.content]
         /\ lastEvent'.tag = "save_fail" => exits' = exits

WithoutLine(lines, i) == SubSeq(lines, 1, i) \o SubSeq(lines, i + 2, Len(lines))

\* lines with the sequence pasted in front of the line at 0-based index i
WithLinesAt(lines, i, pasted) ==
  SubSeq(lines, 1, i) \o pasted \o SubSeq(lines, i + 1, Len(lines))

\* C22 (SpecFn): deleteLine on a writable buffer stores the removed current
\* line as a one-line payload in the clipboard, removes exactly that line,
\* leaves one empty line when the buffer would be empty, and leaves the cursor
\* on an existing line at a column within the normal-mode ceiling.
C22_DeleteLineCuts ==
  [][(lastEvent'.tag = "deleteLine" /\ ~editorState.isReadOnly)
       => LET removed == editorState.lines[editorState.cursorLine + 1]
              rest == WithoutLine(editorState.lines, editorState.cursorLine)
              after == editorState'
          IN /\ clipboardState' = [content |-> [type |-> "line", lines |-> << removed >>]]
             /\ after.lines = IF rest = << >> THEN << << >> >> ELSE rest
             /\ after.cursorLine \in 0..(Len(after.lines) - 1)
             /\ after.cursorCol >= 0
             /\ after.cursorCol <= Max(0, Len(after.lines[after.cursorLine + 1]) - 1)]_vars

\* C22 witness: dd on the only line "a," left one empty line and the
\* clipboard holds "a,".
C22_OnlyLineCut ==
  /\ lastEvent.tag = "deleteLine"
  /\ editorState.lines = << << >> >>
  /\ editorState.isDirty
  /\ clipboardState = [content |-> [type |-> "line", lines |-> << << "a", "," >> >>]]

\* C23 (SpecFn): with a line payload in the clipboard pasteAfter inserts the
\* clipboard lines contiguously from index cursorLine + 1 and pasteBefore from
\* index cursorLine, the other lines keep their order, and the cursor is on
\* the first pasted line at column 0; with an empty clipboard the state is
\* returned unchanged.
C23_PasteInsertsLines ==
  [][(lastEvent'.tag \in {"pasteAfter", "pasteBefore"} /\ ~editorState.isReadOnly)
       => IF clipboardState.content = NullContent
          THEN editorState' = editorState
          ELSE LET index == IF lastEvent'.tag = "pasteAfter"
                            THEN editorState.cursorLine + 1
                            ELSE editorState.cursorLine
               IN /\ editorState'.lines =
                       WithLinesAt(editorState.lines, index, clipboardState.content.lines)
                  /\ editorState'.cursorLine = index
                  /\ editorState'.cursorCol = 0
                  /\ clipboardState' = clipboardState]_vars

\* C23 witness: p on the one-line buffer [""] with "a" in the clipboard gave
\* ["", "a"] with the cursor at (1, 0).
C23_PastedBelow ==
  /\ lastEvent.tag = "pasteAfter"
  /\ editorState.lines = << << >>, << "a" >> >>
  /\ editorState.cursorLine = 1
  /\ editorState.cursorCol = 0
  /\ editorState.isDirty
  /\ clipboardState = [content |-> [type |-> "line", lines |-> << << "a" >> >>]]

\* the quit prompt, the save prompt or the command line is open
OverlayActive ==
  /\ ~quitState.shouldQuit
  /\ \/ quitState.promptState = "confirming"
     \/ saveState.promptState = "confirming"
     \/ commandState.mode = "active"

\* the step is a key event: completions of a save append to ioLog, and the
\* completion of onMount's probe changes mountCheck
KeyStep == ioLog' = ioLog /\ mountCheck' = mountCheck

\* C24 (SpecSession): while the quit prompt, the save prompt or the command
\* line is open, a key event changes neither lines, cursorLine, cursorCol,
\* mode nor the clipboard, and the save hotkey opens no save prompt and
\* starts no save.
C24_OverlayConsumesKeys ==
  [][OverlayActive
       => /\ KeyStep
               => /\ editorState'.lines = editorState.lines
                  /\ editorState'.cursorLine = editorState.cursorLine
                  /\ editorState'.cursorCol = editorState.cursorCol
                  /\ editorState'.mode = editorState.mode
                  /\ clipboardState' = clipboardState
          /\ KeyEvent(Key("s", "^S", TRUE))
               => (saveState' = saveState /\ saves' = saves)]_vars

\* C24 witness: x was typed at the command line of the freshly loaded buffer
\* "a"; it went into the command buffer and the line was not touched.
C24_TypedIntoCommandLine ==
  /\ commandState = [mode |-> "active", buffer |-> << ":", "x" >>]
  /\ editorState.lines = << << "a" >> >>
  /\ ~editorState.isDirty
  /\ undoState = createUndoState
  /\ lastEvent.tag = "key"

\* C25 (SpecEdit), as claimed: in normal mode on a writable buffer i enters
\* insert mode and keeps the cursor, a moves one column right (at most to the
\* line length), I moves to column 0, A to the line length, o opens an empty
\* line below and O above the cursor line with the cursor at column 0 of the
\* new line; I, A and O arrive with a lower-case name and an upper-case
\* sequence.
C25_InsertEntryKeys ==
  [][(editorState.mode = "normal" /\ ~editorState.isReadOnly)
       => LET line == editorState.lines[editorState.cursorLine + 1]
              row == editorState.cursorLine
              Entered(lines, cursorLine, cursorCol) ==
                /\ editorState'.mode = "insert"
                /\ editorState'.lines = lines
                /\ editorState'.cursorLine = cursorLine
                /\ editorState'.cursorCol = cursorCol
          IN /\ KeyEvent(Key("i", "i", FALSE))
                  => Entered(editorState.lines, row, editorState.cursorCol)
             /\ KeyEvent(Key("a", "a", FALSE))
                  => Entered(editorState.lines, row,
                             Min(editorState.cursorCol + 1, Len(line)))
             /\ KeyEvent(Key("i", "I", FALSE)) => Entered(editorState.lines, row, 0)
             /\ KeyEvent(Key("a", "A", FALSE)) => Entered(editorState.lines, row, Len(line))
             /\ KeyEvent(Key("o", "o", FALSE))
                  => Entered(WithLinesAt(editorState.lines, row + 1, << << >> >>),
                             row + 1, 0)
             /\ KeyEvent(Key("o", "O", FALSE))
                  => Entered(WithLinesAt(editorState.lines, row, << << >> >>), row, 0)]_vars

\* C25, for the keys whose name is the character typed ("I" for Shift+i):
\* there each of the six keys places the cursor as claimed.
C25_InsertEntryByCharacter ==
  [][(editorState.mode = "normal" /\ ~editorState.isReadOnly)
       => LET line == editorState.lines[editorState.cursorLine + 1]
              row == editorState.cursorLine
              Entered(lines, cursorLine, cursorCol) ==
                /\ editorState'.mode = "insert"
                /\ editorState'.lines = lines
                /\ editorState'.cursorLine = cursorLine
                /\ editorState'.cursorCol = cursorCol
          IN /\ KeyEvent(Key("i", "i", FALSE))
                  => Entered(editorState.lines, row, editorState.cursorCol)
             /\ KeyEvent(Key("a", "a", FALSE))
                  => Entered(editorState.lines, row,
                             Min(editorState.cursorCol + 1, Len(line)))
             /\ KeyEvent(Key("I", "I", FALSE)) => Entered(editorState.lines, row, 0)
             /\ KeyEvent(Key("A", "A", FALSE)) => Entered(editorState.lines, row, Len(line))
             /\ KeyEvent(Key("o", "o", FALSE))
                  => Entered(WithLinesAt(editorState.lines, row + 1, << << >> >>),
                             row + 1, 0)
             /\ KeyEvent(Key("O", "O", FALSE))
                  => Entered(WithLinesAt(editorState.lines, row, << << >> >>), row, 0)]_vars

\* C26 (SpecSession), as claimed: the chord detector is armed for dd only by
\* a d key event and for yy only by a y key event, so that any other key
\* event between the two keys of a chord (also one handled by an overlay)
\* keeps the second key from triggering deleteLine or yankLine.
C26_ChordKeysConsecutive ==
  [][\A key \in SessionKeys :
       KeyEvent(key)
         => /\ lastKey' = "d" => key.name = "d"
            /\ lastKey' = "y" => key.name = "y"]_vars

\* The undo stack after one more operation has been pushed onto stack: the
\* operations it held, oldest evicted at the capacity, followed by one whose
\* before and after fields are the two editor states given.
PushedOnce(stack, after, beforeState, afterState) ==
  /\ Len(after) > 0
  /\ LET kept == SubSeq(after, 1, Len(after) - 1)
         operation == after[Len(after)]
     IN /\ kept = IF Len(stack) < MAX_UNDO_STACK_SIZE THEN stack
                  ELSE SubSeq(stack, 2, Len(stack))
        /\ operation.beforeLines = beforeState.lines
        /\ operation.afterLines = afterState.lines
        /\ operation.beforeCursorLine = beforeState.cursorLine
        /\ operation.beforeCursorCol = beforeState.cursorCol
        /\ operation.afterCursorLine = afterState.cursorLine
        /\ operation.afterCursorCol = afterState.cursorCol

YankChord ==
  /\ ~OverlayActive
  /\ ~quitState.shouldQuit
  /\ editorState.mode = "normal"
  /\ lastKey = "y"
  /\ KeyEvent(Key("y", "y", FALSE))

CutChord ==
  /\ ~OverlayActive
  /\ ~quitState.shouldQuit
  /\ editorState.mode = "normal"
  /\ ~editorState.isReadOnly
  /\ lastKey = "d"
  /\ KeyEvent(Key("d", "d", FALSE))

CommandBufferShape(state) ==
  /\ state.mode = "none" => state.buffer = << >>
  /\ state.mode = "active" => (Len(state.buffer) >= 1 /\ state.buffer[1] = ":")

\* C29 (SpecSession): in every reachable state the command buffer is empty
\* when command mode is inactive and starts with ':' when it is active, and
\* Enter, Escape and Backspace on a buffer holding only ':' each leave
\* command mode inactive with an empty buffer.
C29_CommandBufferInvariant ==
  [][/\ CommandBufferShape(commandState)
     /\ CommandBufferShape(commandState')
     /\ (/\ commandState = [mode |-> "active", buffer |-> << ":" >>]
         /\ \E name \in {"return", "escape", "backspace"} :
              \E key \in SessionKeys : key.name = name /\ KeyEvent(key))
          => commandState' = [mode |-> "none", buffer |-> << >>]]_vars

\* C29 witness: the command line was opened on a modified buffer and holds
\* only ':', the state in which Enter, Escape and Backspace all close it.
C29_BareColon ==
  /\ commandState = [mode |-> "active", buffer |-> << ":" >>]
  /\ editorState.isDirty
  /\ editorState.mode = "normal"
  /\ lastEvent.tag = "key"

\* The content the buffer was loaded with, or the content the most recent
\* successful save wrote.
SavedContent ==
  IF disk.exists THEN disk.content ELSE CHOOSE content \in SessionContents : TRUE

\* C30 (SpecSession), as claimed: whenever isDirty is false the serialized
\* buffer equals the content loaded at session start or written by the most
\* recent successful save; every change to lines sets isDirty, and isDirty is
\* cleared only for the content a successful save actually wrote.
C30_CleanMeansSaved ==
  ~editorState.isDirty => getEditorContent(editorState) = SavedContent

\* C31 (SpecEdit), as claimed: after every undo or redo key the cursor is on
\* an existing line and within the normal-mode column ceiling of that line,
\* also when the restored cursor was recorded in insert mode.
C31_UndoRedoClampCursor ==
  lastEvent.tag \in {"undo", "redo"}
    => /\ editorState.cursorLine < Len(editorState.lines)
       /\ editorState.cursorCol
            <= Max(0, Len(At(editorState.lines, editorState.cursorLine)) - 1)

\* the cursor lies on an existing line, between column 0 and the column
\* ceiling of the mode
CursorValid(state) ==
  /\ 0 <= state.cursorLine
  /\ state.cursorLine < Len(state.lines)
  /\ 0 <= state.cursorCol
  /\ state.cursorCol <= getMaxCol(At(state.lines, state.cursorLine), state.mode)

\* C32 (SpecFn), as claimed: moveToNextWord and moveToPreviousWord, applied
\* to any state that satisfies the cursor invariant, return a cursor on an
\* existing line between column 0 and the mode's column ceiling, and leave
\* lines unchanged.
C32_WordMotionsKeepCursorValid ==
  [][(/\ lastEvent'.tag \in {"moveToNextWord", "moveToPreviousWord"}
      /\ CursorValid(editorState))
       => /\ CursorValid(editorState')
          /\ editorState'.lines = editorState.lines]_vars

\* C33 (SpecFn): in insert mode on a writable buffer with a valid cursor,
\* insertNewLine followed immediately by deleteCharBefore restores the
\* original lines, cursorLine and cursorCol.
C33_SplitThenJoin ==
  [][(/\ lastEvent'.tag = "insertNewLine"
      /\ editorState.mode = "insert"
      /\ ~editorState.isReadOnly
      /\ CursorValid(editorState))
       => /\ Len(editorState'.lines) = Len(editorState.lines) + 1
          /\ SameText(deleteCharBefore(editorState'), editorState)]_vars

\* C33 witness: insertNewLine has split the second line "aa" of a writable
\* buffer between its two characters.
C33_LineSplitInTheMiddle ==
  /\ lastEvent.tag = "insertNewLine"
  /\ editorState.mode = "insert"
  /\ ~editorState.isReadOnly
  /\ editorState.isDirty
  /\ editorState.lines = << << " " >>, << "a" >>, << "a" >> >>
  /\ editorState.cursorLine = 2
  /\ editorState.cursorCol = 0

\* the number of operations the undo log holds on both stacks
LogSize(undoState_) == Len(undoState_.undoStack) + Len(undoState_.redoStack)

\* C37 (SpecStacks): in every state reachable by pushUndoOperation,
\* performUndo, performRedo and clearUndoStack from an empty log the two
\* stacks together hold at most 100 operations, and performUndo and
\* performRedo each move exactly one entry (when there is one) from one stack
\* to the other, preserving that sum.
C37_LogSizeBounded ==
  [][/\ LogSize(undoState) <= 100
     /\ LogSize(undoState') <= 100
     /\ lastEvent'.tag \in {"undo", "redo"} => LogSize(undoState') = LogSize(undoState)
     /\ (lastEvent'.tag = "undo" /\ canUndo(undoState))
          => /\ Len(undoState'.undoStack) = Len(undoState.undoStack) - 1
             /\ Len(undoState'.redoStack) = Len(undoState.redoStack) + 1
     /\ (lastEvent'.tag = "redo" /\ canRedo(undoState))
          => /\ Len(undoState'.redoStack) = Len(undoState.redoStack) - 1
             /\ Len(undoState'.undoStack) = Len(undoState.undoStack) + 1]_vars

\* C37 witness: a full undo stack was undone sixty times and forty of the
\* undone operations were redone.
C37_FullLogSplit ==
  /\ lastEvent.tag = "redo"
  /\ Len(undoState.undoStack) = 80
  /\ Len(undoState.redoStack) = 20

\* C38 (SpecEdit), as claimed: a normal- or insert-mode key event other than
\* u and Ctrl+R that leaves lines unchanged leaves both the undo stack and
\* the redo stack unchanged.
C38_NoEditNoHistory ==
  [][(/\ KeyStep
      /\ lastEvent'.tag \notin {"undo", "redo"}
      /\ editorState'.lines = editorState.lines)
       => undoState' = undoState]_vars

\* the overlays that are open: the command line, the save prompt and the
\* quit prompt
OpenOverlays ==
  {overlay \in {"command", "save_confirm", "quit_confirm"} :
     \/ overlay = "command" /\ commandState.mode = "active"
     \/ overlay = "save_confirm" /\ saveState.promptState = "confirming"
     \/ overlay = "quit_confirm" /\ quitState.promptState = "confirming"}

\* C39 (SpecSession): at most one overlay is active in any reachable state:
\* command-active, save-confirm-pending and quit-confirm-pending are
\* mutually exclusive, for every sequence of key events.
C39_OneOverlay == Cardinality(OpenOverlays) <= 1

\* C39 witness: the quit prompt is open on a modified buffer, the command
\* line and the save prompt are closed.
C39_QuitPromptAlone ==
  /\ OpenOverlays = {"quit_confirm"}
  /\ editorState.isDirty
  /\ lastEvent.tag = "key"
  /\ commandState = createCommandState

\* the cursor stands on the column ceiling of the last line
AtBufferEnd(state) ==
  /\ state.cursorLine = Len(state.lines) - 1
  /\ state.cursorCol = getMaxCol(At(state.lines, state.cursorLine), state.mode)

\* the cursor of a is before the cursor of b, by line and then by column
CursorBefore(a, b) ==
  \/ a.cursorLine < b.cursorLine
  \/ a.cursorLine = b.cursorLine /\ a.cursorCol < b.cursorCol

\* C40 (SpecFn), as claimed: in normal mode each moveToNextWord applied to a
\* valid cursor that is not already at the column ceiling of the last line
\* strictly advances (cursorLine, cursorCol) in lexicographic order and
\* keeps the cursor valid, and at the column ceiling of the last line it
\* leaves the cursor where it is: repeated w ends there and stays.
C40_NextWordAdvances ==
  [][(/\ lastEvent'.tag = "moveToNextWord"
      /\ editorState.mode = "normal"
      /\ CursorValid(editorState))
       => IF AtBufferEnd(editorState)
          THEN SameText(editorState', editorState)
          ELSE CursorBefore(editorState, editorState') /\ CursorValid(editorState')]_vars

\* C40 witness: from the end of the first line moveToNextWord has crossed to
\* the second line and skipped its leading blank.
C40_CrossedToNextLine ==
  /\ lastEvent.tag = "moveToNextWord"
  /\ editorState.mode = "normal"
  /\ editorState.lines = << << "a" >>, << " ", "a" >> >>
  /\ editorState.cursorLine = 1
  /\ editorState.cursorCol = 1

\* ------------------------------------------------ terminal: the pane lock
\* no editor session takes part in the canvas specifications
EditorClosed ==
  /\ editorState = createEditorState(<< >>, Null)
  /\ undoState = createUndoState
  /\ clipboardState = createClipboardState
  /\ lastKey = Null
  /\ commandState = createCommandState
  /\ saveState = createSaveState
  /\ quitState = createQuitState
  /\ props = [embedded |-> FALSE, file |-> NoFile]
  /\ mountCheck = "done"
  /\ pending = {}
  /\ disk = NoContent
  /\ backup = NoContent
  /\ ioLog = << >>
  /\ saves = 0
  /\ exits = 0
  /\ pushCount = 0
  /\ lastEvent = Ev("init", "")

\* the two processes that call spawnCanvas, named by their pid
Spawners == {"A", "B"}

\* one spawnCanvas invocation: where it stands, the iteration of the
\* acquireLock loop it is in, and the lockContent it wrote last
Spawner(pc, attempt, lockContent) ==
  [pc |-> pc, attempt |-> attempt, lockContent |-> lockContent]

\* CANVAS_LOCK_FILE does not exist
NoLockFile == << >>

\* `${process.pid}:${Date.now()}`; the iteration stands for the time stamp
LockContent(pid, attempt) == << pid, attempt >>

LockFrame == UNCHANGED << editorVars, socketBuffers, wire, received, ipcCall >>

\* acquireLock: the loop condition fails, LOCK_TIMEOUT_MS have passed;
\* spawnCanvas throws "Failed to acquire lock"
LockTimeout(p) ==
  /\ spawners[p].pc = "exists"
  /\ spawners[p].attempt > 1
  /\ spawners' = [spawners EXCEPT ![p].pc = "failed"]
  /\ UNCHANGED lockFile
  /\ LockFrame

\* acquireLock: const exists = await lockFile.exists()
LockExists(p) ==
  /\ spawners[p].pc = "exists"
  /\ spawners[p].attempt <= MaxLockAttempts
  /\ spawners' = [spawners EXCEPT ![p].pc = IF lockFile = NoLockFile THEN "write" ELSE "stale"]
  /\ UNCHANGED lockFile
  /\ LockFrame

\* acquireLock: await isLockStale(), then the 50 ms sleep.  Both processes
\* run and are younger than LOCK_STALE_MS, so isLockStale answers false
\* whether the file still exists or not.
LockStale(p) ==
  /\ spawners[p].pc = "stale"
  /\ spawners' = [spawners EXCEPT ![p].pc = "exists", ![p].attempt = @ + 1]
  /\ UNCHANGED lockFile
  /\ LockFrame

\* acquireLock: await Bun.write(CANVAS_LOCK_FILE, lockContent), then the
\* 10 ms sleep
LockWrite(p) ==
  /\ spawners[p].pc = "write"
  /\ lockFile' = LockContent(p, spawners[p].attempt)
  /\ spawners' = [spawners EXCEPT ![p].pc = "verify",
                                  ![p].lockContent = LockContent(p, spawners[p].attempt)]
  /\ LockFrame

\* acquireLock: read the file back; return true when it holds lockContent,
\* else sleep 50 ms and start over
LockVerify(p) ==
  /\ spawners[p].pc = "verify"
  /\ spawners' = IF lockFile = spawners[p].lockContent
                 THEN [spawners EXCEPT ![p].pc = "locked"]
                 ELSE [spawners EXCEPT ![p].pc = "exists", ![p].attempt = @ + 1]
  /\ UNCHANGED lockFile
  /\ LockFrame

\* spawnCanvas: the try block, the pane is reused or created
SpawnPane(p) ==
  /\ spawners[p].pc = "locked"
  /\ spawners' = [spawners EXCEPT ![p].pc = "release"]
  /\ UNCHANGED lockFile
  /\ LockFrame

\* releaseLock: if (await lockFile.exists())
ReleaseExists(p) ==
  /\ spawners[p].pc = "release"
  /\ spawners' = [spawners EXCEPT ![p].pc = IF lockFile = NoLockFile THEN "done" ELSE "remove"]
  /\ UNCHANGED lockFile
  /\ LockFrame

\* releaseLock: read the content and rm -f the file when its pid is ours; a
\* file that has vanished makes text() throw, which is caught
ReleaseRemove(p) ==
  /\ spawners[p].pc = "remove"
  /\ lockFile' = IF lockFile # NoLockFile /\ lockFile[1] = p THEN NoLockFile ELSE lockFile
  /\ spawners' = [spawners EXCEPT ![p].pc = "done"]
  /\ LockFrame

InitLock ==
  /\ EditorClosed
  /\ lockFile = NoLockFile
  /\ spawners = [p \in Spawners |-> Spawner("exists", 1, NoLockFile)]
  /\ socketBuffers = << >>
  /\ wire = << >>
  /\ received = << >>
  /\ ipcCall = Null

NextLock ==
  \E p \in Spawners :
    \/ LockTimeout(p)
    \/ LockExists(p)
    \/ LockStale(p)
    \/ LockWrite(p)
    \/ LockVerify(p)
    \/ SpawnPane(p)
    \/ ReleaseExists(p)
    \/ ReleaseRemove(p)

SpecLock == InitLock /\ [][NextLock]_vars

\* the invocations that are between a successful acquireLock and releaseLock
LockHolders == {p \in Spawners : spawners[p].pc = "locked"}

\* C34 (SpecLock), as claimed: two concurrent spawnCanvas invocations never
\* both hold the pane lock: at most one process is between a successful
\* acquireLock and its releaseLock, for every interleaving of their
\* lock-file existence checks, writes and read-back verifications.
C34_PaneLockExclusive == Cardinality(LockHolders) <= 1

\* ------------------------------------------------------ ipc: the IPC server
\* The bytes on the wire: ASCII bytes stand for themselves, 0xC3 0xA9 is the
\* UTF-8 encoding of one character outside ASCII.
LeadByte == "0xC3"

ContinuationByte == "0xA9"

\* data.toString(): UTF-8 decoding of one chunk on its own.  A lead byte
\* without its continuation byte in the chunk, and a continuation byte
\* without its lead byte, each decode to the replacement character.
RECURSIVE Utf8ToString(_)
Utf8ToString(data) ==
  IF Len(data) = 0 THEN << >>
  ELSE IF data[1] = LeadByte
    THEN IF Len(data) >= 2 /\ data[2] = ContinuationByte
         THEN << "e_acute" >> \o Utf8ToString(SubSeq(data, 3, Len(data)))
         ELSE << "U+FFFD" >> \o Utf8ToString(Tail(data))
  ELSE IF data[1] = ContinuationByte
    THEN << "U+FFFD" >> \o Utf8ToString(Tail(data))
  ELSE << data[1] >> \o Utf8ToString(Tail(data))

\* JSON.parse succeeds: over the characters used here a JSON text is a
\* number (a run of digits) or a string (quoted, without a quote inside)
JsonParses(text) ==
  \/ Len(text) >= 1 /\ \A i \in 1..Len(text) : text[i] \in {"1", "2"}
  \/ /\ Len(text) >= 2
     /\ text[1] = "\"" /\ text[Len(text)] = "\""
     /\ \A i \in 2..(Len(text) - 1) : text[i] # "\""

\* one invocation of onMessage (parsed) or of onError (not parsed)
IpcCall(line, parsed) == [line |-> line, parsed |-> parsed]

\* createIPCServer, socket.data: the buffer left for the socket and the
\* callbacks invoked, in order
SocketData(currentBuffer, data) ==
  LET newBuffer == currentBuffer \o Utf8ToString(data)
      lines == SplitLines(newBuffer)
      complete == SubSeq(lines, 1, Len(lines) - 1)
      heard == {i \in 1..Len(complete) : Len(Trim(complete[i])) > 0}
      nth(k) == CHOOSE i \in heard : Cardinality({j \in heard : j <= i}) = k
  IN [remainingBuffer |-> lines[Len(lines)],
      calls |-> [k \in 1..Cardinality(heard) |->
                   IpcCall(complete[nth(k)], JsonParses(complete[nth(k)]))]]

\* the clients that connect to the server, and the digit each one sends
Clients == {"c1", "c2"}

Digit(client) == IF client = "c1" THEN "1" ELSE "2"

\* the JSON lines a client may send: a number and a string holding the
\* character outside ASCII
ClientMessages(client) ==
  {<< Digit(client) >>, << "\"", LeadByte, ContinuationByte, "\"" >>}

\* the byte streams of a client: up to n newline-terminated JSON lines,
\* followed or not by the beginning of a further line
RECURSIVE ClientStreams(_, _)
ClientStreams(client, n) ==
  IF n = 0 THEN {<< >>, << Digit(client) >>}
  ELSE ClientStreams(client, 0)
         \cup {message \o << "\n" >> \o rest :
                 message \in ClientMessages(client),
                 rest \in ClientStreams(client, n - 1)}

\* a connection: the bytes the client writes, how many have arrived at the
\* server, and the state of the socket
Connection(bytes, arrived, state) ==
  [bytes |-> bytes, arrived |-> arrived, state |-> state]

IpcFrame == UNCHANGED << editorVars, lockFile, spawners, ipcCall >>

\* socket.open
IpcOpen(client) ==
  /\ wire[client].state = "connecting"
  /\ wire' = [wire EXCEPT ![client].state = "open"]
  /\ socketBuffers' = [s \in DOMAIN socketBuffers \cup {client} |->
                         IF s = client THEN << >> ELSE socketBuffers[s]]
  /\ UNCHANGED received
  /\ IpcFrame

\* socket.data with the next n bytes of the client's stream
IpcData(client, n) ==
  /\ wire[client].state = "open"
  /\ n \in 1..(Len(wire[client].bytes) - wire[client].arrived)
  /\ LET data == SubSeq(wire[client].bytes, wire[client].arrived + 1,
                        wire[client].arrived + n)
         currentBuffer == IF client \in DOMAIN socketBuffers
                          THEN socketBuffers[client] ELSE << >>
         handled == SocketData(currentBuffer, data)
     IN /\ socketBuffers' = [s \in DOMAIN socketBuffers \cup {client} |->
                               IF s = client THEN handled.remainingBuffer
                               ELSE socketBuffers[s]]
        /\ received' = [received EXCEPT ![client] = @ \o handled.calls]
  /\ wire' = [wire EXCEPT ![client].arrived = @ + n]
  /\ IpcFrame

\* socket.close; bytes that have not arrived are lost
IpcClose(client) ==
  /\ wire[client].state = "open"
  /\ wire' = [wire EXCEPT ![client].state = "closed"]
  /\ socketBuffers' = [s \in DOMAIN socketBuffers \ {client} |-> socketBuffers[s]]
  /\ UNCHANGED received
  /\ IpcFrame

InitIpc ==
  /\ EditorClosed
  /\ lockFile = << >>
  /\ spawners = << >>
  /\ ipcCall = Null
  /\ socketBuffers = << >>
  /\ received = [client \in Clients |-> << >>]
  /\ wire \in [Clients -> UNION {{Connection(bytes, 0, "connecting") :
                                    bytes \in ClientStreams(client, MaxIpcMessages)} :
                                 client \in Clients}]
  /\ \A client \in Clients :
       wire[client].bytes \in ClientStreams(client, MaxIpcMessages)

NextIpc ==
  \E client \in Clients :
    \/ IpcOpen(client)
    \/ \E n \in 1..MaxChunk : IpcData(client, n)
    \/ IpcClose(client)

SpecIpc == InitIpc /\ [][NextIpc]_vars

\* the newline-terminated lines among the bytes of a client that have
\* arrived, each one decoded as a whole
ArrivedLines(connection) ==
  LET lines == SplitLines(SubSeq(connection.bytes, 1, connection.arrived))
  IN [i \in 1..(Len(lines) - 1) |-> Utf8ToString(lines[i])]

CanvasCall(pc, listening) ==
  [pc |-> pc, resolved |-> FALSE, timeoutId |-> "pending", server |-> Null,
   listening |-> listening, client |-> "none", delivered |-> 0,
   resolutions |-> << >>, firstTerminal |-> Null]

CanvasMessageTypes == {"ready", "selected", "cancelled", "error", "pong", "invalid"}

clearTimeout(timeoutId) == IF timeoutId = "pending" THEN "cleared" ELSE timeoutId

\* cleanup: clearTimeout(timeoutId); server?.close()
cleanup(call) ==
  [call EXCEPT !.timeoutId = clearTimeout(call.timeoutId),
               !.listening = IF call.server = Null THEN call.listening ELSE FALSE]

\* faulty variant: a later terminal event resolves again
handleResolve_unguarded(call, result) ==
  [cleanup(call) EXCEPT !.resolved = TRUE,
                        !.resolutions = Append(call.resolutions, result)]

handleResolve(call, result) ==
  IF call.resolved
    THEN call
    ELSE [cleanup([call EXCEPT !.resolved = TRUE])
            EXCEPT !.resolutions = Append(call.resolutions, result)]

\* the onMessage callback handed to createIPCServer
canvasOnMessage(call, type) ==
  CASE type = "selected" -> handleResolve(call, "selected")
    [] type = "cancelled" -> handleResolve(call, "cancelled")
    [] type = "error" -> handleResolve(call, "error")
    [] OTHER -> call

\* the onClientDisconnect callback handed to createIPCServer
canvasOnClientDisconnect(call) ==
  IF ~call.resolved THEN handleResolve(call, "Canvas disconnected") ELSE call

Terminal(call, event) ==
  [call EXCEPT !.firstTerminal = IF call.firstTerminal = Null THEN event
                                 ELSE call.firstTerminal]

SpawnFrame == UNCHANGED << editorVars, lockFile, spawners, socketBuffers, wire, received >>

\* createIPCServer has no await of its own: its promise is settled when the
\* call returns, and the continuation of initializeCanvas runs as a
\* microtask, before any timer or socket callback
MicrotasksDone == ipcCall.pc \notin {"created", "rejected"}

\* server = await createIPCServer(...); spawnCanvas(...) is called
ServerAssigned ==
  /\ ipcCall.pc = "created"
  /\ ipcCall' = [ipcCall EXCEPT !.server = "server", !.pc = "spawning"]
  /\ SpawnFrame

\* createIPCServer threw (Bun.listen failed): the catch block
ListenFailed ==
  /\ ipcCall.pc = "rejected"
  /\ ipcCall' = [handleResolve(cleanup(Terminal(ipcCall, "createIPCServer threw")),
                               "createIPCServer threw")
                   EXCEPT !.pc = "failed"]
  /\ SpawnFrame

\* await spawnCanvas(...) returns
SpawnReturned ==
  /\ ipcCall.pc = "spawning"
  /\ ipcCall' = [ipcCall EXCEPT !.pc = "done"]
  /\ SpawnFrame

\* await spawnCanvas(...) throws: the catch block
SpawnThrew ==
  /\ ipcCall.pc = "spawning"
  /\ ipcCall' = [handleResolve(cleanup(Terminal(ipcCall, "spawnCanvas threw")),
                               "spawnCanvas threw")
                   EXCEPT !.pc = "failed"]
  /\ SpawnFrame

\* the setTimeout callback
TimerFired ==
  /\ MicrotasksDone
  /\ ipcCall.timeoutId = "pending"
  /\ ipcCall' = handleResolve(Terminal([ipcCall EXCEPT !.timeoutId = "fired"], "Timeout"),
                              "Timeout")
  /\ SpawnFrame

\* the canvas process connects to the socket
CanvasConnects ==
  /\ MicrotasksDone
  /\ ipcCall.listening
  /\ ipcCall.client = "none"
  /\ ipcCall' = [ipcCall EXCEPT !.client = "open"]
  /\ SpawnFrame

\* a complete line from the canvas reaches onMessage
CanvasSends(type) ==
  /\ ipcCall.client = "open"
  /\ ipcCall.delivered < MaxCanvasMessages
  /\ ipcCall' = canvasOnMessage(
                  [(IF type \in {"selected", "cancelled", "error"}
                      THEN Terminal(ipcCall, type) ELSE ipcCall)
                     EXCEPT !.delivered = @ + 1],
                  type)
  /\ SpawnFrame

\* the canvas closes its socket
CanvasDisconnects ==
  /\ ipcCall.client = "open"
  /\ ipcCall' = canvasOnClientDisconnect(
                  [Terminal(ipcCall, "Canvas disconnected") EXCEPT !.client = "closed"])
  /\ SpawnFrame

InitSpawn ==
  /\ EditorClosed
  /\ lockFile = << >>
  /\ spawners = << >>
  /\ socketBuffers = << >>
  /\ wire = << >>
  /\ received = << >>
  /\ ipcCall \in {CanvasCall("created", TRUE), CanvasCall("rejected", FALSE)}

NextSpawn ==
  \/ ServerAssigned
  \/ ListenFailed
  \/ SpawnReturned
  \/ SpawnThrew
  \/ TimerFired
  \/ CanvasConnects
  \/ \E type \in CanvasMessageTypes : CanvasSends(type)
  \/ CanvasDisconnects

SpecSpawn == InitSpawn /\ [][NextSpawn]_vars

\* C36 (SpecSpawn): the promise of spawnCanvasWithIPC resolves exactly once,
\* with the first terminal event (a selected, cancelled or error message,
\* the client's disconnect, the timeout, a failure of the spawn), and once
\* it is resolved the IPC server created for the call is closed and the
\* timer is no longer pending, for every order of spawn completion,
\* messages, disconnect and timeout.
C36_ResolvedOnceAndCleanedUp ==
  /\ ipcCall.resolutions = IF ipcCall.firstTerminal = Null THEN << >>
                           ELSE << ipcCall.firstTerminal >>
  /\ ipcCall.resolved <=> ipcCall.resolutions # << >>
  /\ ipcCall.resolved => ~ipcCall.listening /\ ipcCall.timeoutId # "pending"

\* C36 witness: the timeout resolved the call while spawnCanvas was pending,
\* then spawnCanvas threw and the canvas disconnected
C36_TimeoutThenFailure ==
  /\ ipcCall.pc = "failed"
  /\ ipcCall.client = "closed"
  /\ ipcCall.resolutions = << "Timeout" >>

====
